---- MODULE Spec2Model ----
(***************************************************************************)
(* Model of the knowledge-base searcher of NovsuChatbot                    *)
(* (src/neural_searcher.py, src/utils.py) and of its Telegram front-end    *)
(* (src/bot_handlers.py, src/user_manager.py, src/feedback_manager.py).    *)
(*                                                                         *)
(* A string is a sequence of one-character strings.  Russian words are     *)
(* written in a transliteration that keeps their length (gde = "где").     *)
(* A float is kept exactly, as a fraction [n, d] with d > 0.               *)
(***************************************************************************)
EXTENDS Integers, Sequences, FiniteSets, TLC

(***************************************************************************)
(* Bounds of the model.                                                    *)
(***************************************************************************)
\* longest knowledge base (number of items) that Init draws
MaxItems == 2
\* largest top_k a search is called with
MaxTopK == 2
\* longest text, in characters, that clean_text is checked on
MaxLen == 4

(***************************************************************************)
(* Characters and their classes (Python str.lower, regex \w, \s, \d).      *)
(***************************************************************************)
Letters == {"a", "c", "d", "e", "f", "g", "h", "k", "n", "t", "u", "v", "y", "z"}
Uppers == {"D", "G"}
Digits == {"1"}
Spaces == {" "}

\* str.lower() on one character
LowerChar(c) ==
  CASE c = "D" -> "d"
    [] c = "G" -> "g"
    [] OTHER -> c

\* regex class \w : letters of any script, digits and the underscore
IsWordChar(c) == c \in Letters \cup Uppers \cup Digits \cup {"_"}

\* regex class \s
IsSpaceChar(c) == c \in Spaces

Min(a, b) == IF a < b THEN a ELSE b
Max(a, b) == IF a > b THEN a ELSE b

\* Python None, as a value distinct from every string
None == << "None" >>

\* Python truthiness of an Optional[str]: None and "" are falsy
Falsy(text) == text = None \/ text = << >>

(***************************************************************************)
(* utils.clean_text                                                        *)
(***************************************************************************)
\* text.lower()
Lower(text) == [i \in 1..Len(text) |-> LowerChar(text[i])]

\* re.sub(r'[^\w\s\d]', ' ', text)
SubPunct(text) ==
  [i \in 1..Len(text) |->
     IF IsWordChar(text[i]) \/ IsSpaceChar(text[i]) THEN text[i] ELSE " "]

\* re.sub(r'\s+', ' ', text): every run of whitespace becomes one space
RECURSIVE CollapseSpaces(_)
CollapseSpaces(text) ==
  IF text = << >> THEN << >>
  ELSE IF IsSpaceChar(Head(text))
       THEN IF Len(text) > 1 /\ IsSpaceChar(text[2])
            THEN CollapseSpaces(Tail(text))
            ELSE << " " >> \o CollapseSpaces(Tail(text))
       ELSE << Head(text) >> \o CollapseSpaces(Tail(text))

RECURSIVE LStrip(_)
LStrip(text) ==
  IF text # << >> /\ IsSpaceChar(Head(text)) THEN LStrip(Tail(text)) ELSE text

RECURSIVE RStrip(_)
RStrip(text) ==
  IF text # << >> /\ IsSpaceChar(text[Len(text)])
  THEN RStrip(SubSeq(text, 1, Len(text) - 1))
  ELSE text

\* str.strip()
Strip(text) == RStrip(LStrip(text))

\* mutant: the runs of whitespace are collapsed before the punctuation is
\* replaced
clean_text_CollapseFirst(text) ==
  IF Falsy(text) THEN << >>
  ELSE Strip(SubPunct(CollapseSpaces(Lower(text))))

clean_text(text) ==
  IF Falsy(text) THEN << >>
  ELSE Strip(CollapseSpaces(SubPunct(Lower(text))))

(***************************************************************************)
(* Python string helpers used by the searcher.                             *)
(***************************************************************************)
\* str.split(): the maximal runs of non-whitespace characters, in order
RECURSIVE SplitFrom(_, _, _)
SplitFrom(text, cur, acc) ==
  IF text = << >>
  THEN IF cur = << >> THEN acc ELSE Append(acc, cur)
  ELSE IF IsSpaceChar(Head(text))
       THEN SplitFrom(Tail(text), << >>, IF cur = << >> THEN acc ELSE Append(acc, cur))
       ELSE SplitFrom(Tail(text), Append(cur, Head(text)), acc)

Split(text) == SplitFrom(text, << >>, << >>)

SeqToSet(s) == {s[i] : i \in 1..Len(s)}

\* s[:n]
Prefix(s, n) == SubSeq(s, 1, Min(n, Len(s)))

\* s.startswith(p)
StartsWith(s, p) == Len(p) <= Len(s) /\ SubSeq(s, 1, Len(p)) = p

\* the Python test  sub in s  on strings
Contains(s, sub) ==
  \E i \in 0..(Len(s) - Len(sub)) : SubSeq(s, i + 1, i + Len(sub)) = sub

(***************************************************************************)
(* Words, the stop-word set, and the knowledge bases the model draws.      *)
(***************************************************************************)
w_gde == << "g", "d", "e" >>
w_kak == << "k", "a", "k" >>
w_dekanat == << "d", "e", "k", "a", "n", "a", "t" >>
w_dekana == << "d", "e", "k", "a", "n", "a" >>
w_dekan == << "d", "e", "k", "a", "n" >>
w_dekanu == << "d", "e", "k", "a", "n", "u" >>
w_vuz == << "v", "u", "z" >>
w_zachet == << "z", "a", "c", "h", "e", "t" >>
w_zacheta == << "z", "a", "c", "h", "e", "t", "a" >>
w_fyva == << "f", "y", "v", "a" >>

\* a part of NeuralSearcher.STOP_WORDS ('где', 'как')
STOP_WORDS == {w_gde, w_kak}

\* the raw text "Gde dekanat?"
t_GdeDekanatQ == << "G", "d", "e", " " >> \o w_dekanat \o << "?" >>
t_gde_dekanat == w_gde \o << " " >> \o w_dekanat
t_gde_vuz == w_gde \o << " " >> \o w_vuz
t_gde_zachet == w_gde \o << " ", " " >> \o w_zachet
t_zachet_vuz == w_zachet \o << " " >> \o w_vuz
t_zacheta_vuz == w_zacheta \o << " " >> \o w_vuz
t_gde_zachet_vuz == t_gde_zachet \o << " " >> \o w_vuz
t_kak_gde == w_kak \o << " " >> \o w_gde
t_punct == << "?", "!" >>

\* answers; ans_A and ans_A2 differ only after their first 100 characters
ans_A == [i \in 1..101 |-> IF i = 101 THEN "a" ELSE "d"]
ans_A2 == [i \in 1..101 |-> IF i = 101 THEN "e" ELSE "d"]
ans_B == << "z" >>
ans_C == << "v" >>
ans_E == << "e" >>

\* KnowledgeItem records (config.KNOWLEDGE_BASE entries)
ItemDekanat ==
  [question |-> t_GdeDekanatQ, variations |-> << >>,
   keywords |-> << w_dekanat >>, answer |-> ans_A]
ItemDekan ==
  [question |-> w_dekan, variations |-> << >>,
   keywords |-> << w_dekan >>, answer |-> ans_A2]
ItemZachet ==
  [question |-> w_zachet, variations |-> << t_gde_dekanat >>,
   keywords |-> << >>, answer |-> ans_B]
ItemVuz ==
  [question |-> t_gde_vuz, variations |-> << >>,
   keywords |-> << w_gde >>, answer |-> ans_C]
ItemPunct ==
  [question |-> t_punct, variations |-> << t_punct >>,
   keywords |-> << w_dekana, t_punct >>, answer |-> ans_E]

ItemPool == {ItemDekanat, ItemDekan, ItemZachet, ItemVuz, ItemPunct}

\* the sequences of at most n distinct items of the pool
RECURSIVE KnowledgeBases(_)
KnowledgeBases(n) ==
  IF n = 0 THEN { << >> }
  ELSE LET shorter == KnowledgeBases(n - 1)
       IN shorter \cup
          {Append(kb, it) : kb \in {k \in shorter : Len(k) = n - 1},
                            it \in ItemPool}

Corpora ==
  {kb \in KnowledgeBases(MaxItems) :
     \A i, j \in 1..Len(kb) : i # j => kb[i] # kb[j]}

(***************************************************************************)
(* NeuralSearcher._prepare_search_index and _add_to_index.                 *)
(* An item is named by its position in knowledge_base (object identity).   *)
(* A dict is a sequence of [key, item] entries in insertion order.         *)
(***************************************************************************)
DictKeys(d) == {d[j].key : j \in 1..Len(d)}

\* d[k]
DictGet(d, k) == d[CHOOSE j \in 1..Len(d) : d[j].key = k].item

\* mutant: an existing key is moved to the end
DictSet_MovesToEnd(d, k, v) ==
  Append(SelectSeq(d, LAMBDA e : e.key # k), [key |-> k, item |-> v])

\* d[k] = v : a new key goes last, an existing key keeps its position
DictSet(d, k, v) ==
  IF k \in DictKeys(d)
  THEN [j \in 1..Len(d) |-> IF d[j].key = k THEN [key |-> k, item |-> v] ELSE d[j]]
  ELSE Append(d, [key |-> k, item |-> v])

\* mutant: a phrase that is in the list already is given to the new item
add_to_index_LastWins(st, text, i) ==
  IF text # << >> /\ text \notin SeqToSet(st.all_questions)
  THEN [all_questions |-> Append(st.all_questions, text),
        question_to_answer |-> DictSet(st.question_to_answer, text, i)]
  ELSE IF text # << >>
  THEN [all_questions |-> st.all_questions,
        question_to_answer |-> DictSet(st.question_to_answer, text, i)]
  ELSE st

\* st = [all_questions, question_to_answer]
add_to_index(st, text, i) ==
  IF text # << >> /\ text \notin SeqToSet(st.all_questions)
  THEN [all_questions |-> Append(st.all_questions, text),
        question_to_answer |-> DictSet(st.question_to_answer, text, i)]
  ELSE st

RECURSIVE AddVariations(_, _, _, _)
AddVariations(st, vars, k, i) ==
  IF k > Len(vars) THEN st
  ELSE AddVariations(
         IF clean_text(vars[k]) # << >>
         THEN add_to_index(st, clean_text(vars[k]), i) ELSE st,
         vars, k + 1, i)

\* mutant: a keyword that is in the table already keeps its item
RECURSIVE AddKeywords_FirstWins(_, _, _, _)
AddKeywords_FirstWins(map, kws, k, i) ==
  IF k > Len(kws) THEN map
  ELSE AddKeywords_FirstWins(
         IF clean_text(kws[k]) # << >> /\ clean_text(kws[k]) \notin DictKeys(map)
         THEN DictSet(map, clean_text(kws[k]), i) ELSE map,
         kws, k + 1, i)

RECURSIVE AddKeywords(_, _, _, _)
AddKeywords(map, kws, k, i) ==
  IF k > Len(kws) THEN map
  ELSE AddKeywords(
         IF clean_text(kws[k]) # << >>
         THEN DictSet(map, clean_text(kws[k]), i) ELSE map,
         kws, k + 1, i)

\* the loop over knowledge_base, from item i on
RECURSIVE PrepareFrom(_, _, _, _)
PrepareFrom(kb, i, st, map) ==
  IF i > Len(kb) THEN [st |-> st, map |-> map]
  ELSE LET st1 == IF clean_text(kb[i].question) # << >>
                  THEN add_to_index(st, clean_text(kb[i].question), i) ELSE st
           st2 == AddVariations(st1, kb[i].variations, 1, i)
       IN PrepareFrom(kb, i + 1, st2, AddKeywords(map, kb[i].keywords, 1, i))

\* the FAISS index: None, or one row per phrase of all_questions, in order
index_none == [is_none |-> TRUE, rows |-> << >>]

\* mutant: the test  if not self.all_questions  is missing
prepare_search_index_NoEmptyCheck(kb) ==
  LET r == PrepareFrom(kb, 1,
                       [all_questions |-> << >>, question_to_answer |-> << >>],
                       << >>)
  IN [all_questions |-> r.st.all_questions,
      question_to_answer |-> r.st.question_to_answer,
      hardcoded_keywords_map |-> r.map,
      index |-> [is_none |-> FALSE, rows |-> r.st.all_questions]]

prepare_search_index(kb) ==
  LET r == PrepareFrom(kb, 1,
                       [all_questions |-> << >>, question_to_answer |-> << >>],
                       << >>)
  IN [all_questions |-> r.st.all_questions,
      question_to_answer |-> r.st.question_to_answer,
      hardcoded_keywords_map |-> r.map,
      index |-> IF r.st.all_questions = << >> THEN index_none
                ELSE [is_none |-> FALSE, rows |-> r.st.all_questions]]

(***************************************************************************)
(* NeuralSearcher._build_keyword_index                                     *)
(***************************************************************************)
\* the words one item adds to significant_words
ItemSignificantWords(item) ==
  {clean_text(item.keywords[k]) : k \in
     {k \in 1..Len(item.keywords) : Len(clean_text(item.keywords[k])) > 2}}
  \cup
  UNION {{w \in SeqToSet(Split(clean_text(item.variations[k]))) :
            w \notin STOP_WORDS /\ Len(w) > 3} : k \in 1..Len(item.variations)}
  \cup
  {w \in SeqToSet(Split(clean_text(item.question))) :
     w \notin STOP_WORDS /\ Len(w) > 3}

build_keyword_index(kb) == UNION {ItemSignificantWords(kb[i]) : i \in 1..Len(kb)}

(***************************************************************************)
(* Fractions, for the float scores.                                        *)
(***************************************************************************)
Frac(n, d) == [n |-> n, d |-> d]
FracLess(a, b) == a.n * b.d < b.n * a.d
FracEq(a, b) == a.n * b.d = b.n * a.d
FracLeq(a, b) == a.n * b.d <= b.n * a.d
\* a hundredth-valued literal such as 0.55
Hundredths(h) == Frac(h, 100)

(***************************************************************************)
(* rapidfuzz.fuzz.ratio: 100 * (1 - indel_distance / (len1 + len2)),       *)
(* the indel distance being len1 + len2 - 2 * LCS.                         *)
(***************************************************************************)
\* one row of the longest-common-subsequence table: the row of character c
\* from the row before it (prev), against the string t; acc holds the
\* entries of columns 0 .. Len(acc) - 1
RECURSIVE LcsRow(_, _, _, _)
LcsRow(prev, c, t, acc) ==
  IF Len(acc) > Len(t) THEN acc
  ELSE LcsRow(prev, c, t,
              Append(acc, IF c = t[Len(acc)] THEN prev[Len(acc)] + 1
                          ELSE Max(prev[Len(acc) + 1], acc[Len(acc)])))

\* the last entry of the last row
RECURSIVE LcsRows(_, _, _)
LcsRows(s, t, prev) ==
  IF s = << >> \/ prev = << >> THEN prev[Len(t) + 1]
  ELSE LcsRows(Tail(s), t, LcsRow(prev, Head(s), t, << 0 >>))

LCS(s, t) == LcsRows(s, t, [j \in 1..(Len(t) + 1) |-> 0])

IndelDistance(s, t) == Len(s) + Len(t) - 2 * LCS(s, t)

\* 100 - 100 * dist / lensum, and 100 for two empty strings
NormDistance(dist, lensum) ==
  IF lensum = 0 THEN Frac(100, 1) ELSE Frac(100 * (lensum - dist), lensum)

fuzz_ratio(s, t) == NormDistance(IndelDistance(s, t), Len(s) + Len(t))

(***************************************************************************)
(* NeuralSearcher._check_keywords                                          *)
(***************************************************************************)
KeywordResult(kb, i, score, match_type) ==
  [question |-> kb[i].question, answer |-> kb[i].answer,
   score |-> score, match_type |-> match_type]

\* the body of the loop for one entry of hardcoded_keywords_map:
\* << >> when no test of the body returns
KeywordEntryMatch(kb, entry, clean_query) ==
  IF clean_query = entry.key
  THEN << KeywordResult(kb, entry.item, Hundredths(100), "keyword_exact") >>
  ELSE IF FracLess(Frac(92, 1), fuzz_ratio(clean_query, entry.key))
  THEN << KeywordResult(kb, entry.item, Hundredths(98), "keyword_fuzzy") >>
  ELSE IF Len(entry.key) > 5 /\ Contains(clean_query, entry.key)
  THEN << KeywordResult(kb, entry.item, Hundredths(95), "keyword_contains") >>
  ELSE IF Len(clean_query) > 3 /\ Contains(entry.key, clean_query)
  THEN << KeywordResult(kb, entry.item, Hundredths(90), "query_in_keyword") >>
  ELSE << >>

\* the loop over the dict in insertion order, from entry j on;
\* << >> is the Python None
RECURSIVE CheckKeywordsFrom(_, _, _, _)
CheckKeywordsFrom(kb, map, clean_query, j) ==
  IF j > Len(map) THEN << >>
  ELSE LET found == KeywordEntryMatch(kb, map[j], clean_query)
       IN IF found # << >> THEN found
          ELSE CheckKeywordsFrom(kb, map, clean_query, j + 1)

check_keywords(kb, map, clean_query) == CheckKeywordsFrom(kb, map, clean_query, 1)

(***************************************************************************)
(* _get_significant_words, _has_relevant_words, _calculate_word_overlap    *)
(***************************************************************************)
get_significant_words(text) ==
  {w \in SeqToSet(Split(clean_text(text))) : w \notin STOP_WORDS /\ Len(w) > 2}

\* mutant: a query without significant words is never relevant
has_relevant_words_NoKeywordFallback(map, sig_words, text) ==
  LET query_words == get_significant_words(text)
  IN /\ query_words # {}
     /\ \E word \in query_words :
          \/ word \in sig_words
          \/ /\ Len(word) > 4
             /\ \E sig_word \in sig_words :
                  Len(sig_word) > 4 /\ StartsWith(sig_word, Prefix(word, 5))

\* mutant: any significant word of the query counts as relevant
has_relevant_words_AnySignificant(map, sig_words, text) ==
  IF get_significant_words(text) = {}
  THEN clean_text(text) \in DictKeys(map)
  ELSE TRUE

has_relevant_words(map, sig_words, text) ==
  LET query_words == get_significant_words(text)
  IN IF query_words = {}
     THEN clean_text(text) \in DictKeys(map)
     ELSE \E word \in query_words :
            \/ word \in sig_words
            \/ /\ Len(word) > 4
               /\ \E sig_word \in sig_words :
                    Len(sig_word) > 4 /\ StartsWith(sig_word, Prefix(word, 5))

\* mutant: a word matched by its first five characters counts as a whole word
WordOverlapTenths_StemCountsWhole(qw, matched_words) ==
  IF qw \in matched_words THEN 10
  ELSE IF Len(qw) > 4 /\ \E mw \in matched_words :
                           Len(mw) > 4 /\ StartsWith(mw, Prefix(qw, 5))
       THEN 10
       ELSE 0

\* the count one query word adds, in tenths
WordOverlapTenths(qw, matched_words) ==
  IF qw \in matched_words THEN 10
  ELSE IF Len(qw) > 4 /\ \E mw \in matched_words :
                           Len(mw) > 4 /\ StartsWith(mw, Prefix(qw, 5))
       THEN 7
       ELSE 0

RECURSIVE SumOverlap(_, _)
SumOverlap(words, matched_words) ==
  IF words = {} THEN 0
  ELSE LET qw == CHOOSE w \in words : TRUE
       IN WordOverlapTenths(qw, matched_words)
          + SumOverlap(words \ {qw}, matched_words)

\* mutant: the count is divided by the number of all the words of the query
calculate_word_overlap_AllWords(text, matched_text) ==
  LET query_words == get_significant_words(text)
      matched_words == get_significant_words(matched_text)
  IN IF query_words = {} THEN Frac(0, 1)
     ELSE Frac(SumOverlap(query_words, matched_words),
               10 * Len(Split(clean_text(text))))

calculate_word_overlap(text, matched_text) ==
  LET query_words == get_significant_words(text)
      matched_words == get_significant_words(matched_text)
  IN IF query_words = {} THEN Frac(0, 1)
     ELSE Frac(SumOverlap(query_words, matched_words),
               10 * Cardinality(query_words))

(***************************************************************************)
(* The values the model gives to the embedder and to the callers.          *)
(***************************************************************************)
\* inner products of normalized vectors, in hundredths (from -1.0 to 1.0)
SimValues == {0 - 100, 0, 50, 100}
\* the thresholds search is called with, in hundredths (0.55 is the default)
Thresholds == {0, 55, 100}
\* the score FAISS reports for a missing neighbour (-3.4028235e38), in
\* hundredths: far below every similarity and every threshold
PadScore == 0 - 10000
\* the label FAISS reports for a missing neighbour
PadLabel == 0 - 1

(***************************************************************************)
(* faiss IndexFlatIP.search(query_emb, k): k entries [idx, score] in       *)
(* descending score order, the missing neighbours padded.  The embedder is *)
(* a black box: every similarity of SimValues is possible for a phrase,    *)
(* except that a phrase equal to the query has similarity 1.0, and equal   *)
(* similarities come in any order.  Rows are numbered from 1.              *)
(***************************************************************************)
\* the descending lists of m distinct rows outside `used`, none above maxsim,
\* the similarities drawn from sims
RECURSIVE NeighboursOf(_, _, _, _, _)
NeighboursOf(sims, n, m, used, maxsim) ==
  IF m = 0 THEN { << >> }
  ELSE UNION {
         {<< [idx |-> i, score |-> v] >> \o rest :
            rest \in NeighboursOf(sims, n, m - 1, used \cup {i}, v)} :
         i \in (1..n) \ used, v \in {x \in sims : x <= maxsim}}

Neighbours(n, m, used, maxsim) == NeighboursOf(SimValues, n, m, used, maxsim)

\* the row of the phrase equal to the query is retrieved with similarity 1.0,
\* or only similarities of 1.0 are retrieved before it
SelfFirst(rows, clean_query, nb) ==
  \A p \in 1..Len(rows) :
    rows[p] = clean_query =>
      \/ \E j \in 1..Len(nb) : nb[j].idx = p /\ nb[j].score = 100
      \/ \A j \in 1..Len(nb) : nb[j].idx # p /\ nb[j].score = 100

index_search(rows, clean_query, k) ==
  {nb \o [j \in 1..(k - Min(k, Len(rows))) |-> [idx |-> PadLabel, score |-> PadScore]] :
     nb \in {x \in Neighbours(Len(rows), Min(k, Len(rows)), {}, 100) :
               SelfFirst(rows, clean_query, x)}}

\* the same search when the embedder yields the similarities of sims
index_search_of(sims, rows, clean_query, k) ==
  {nb \o [j \in 1..(k - Min(k, Len(rows))) |-> [idx |-> PadLabel, score |-> PadScore]] :
     nb \in {x \in NeighboursOf(sims, Len(rows), Min(k, Len(rows)), {}, 100) :
               SelfFirst(rows, clean_query, x)}}

(***************************************************************************)
(* NeuralSearcher._neural_search, after the embedder and the index         *)
(* answered with the list `retrieved`.                                     *)
(***************************************************************************)
\* mutant: a result goes before the results of its score
RECURSIVE InsertByScore_BeforeEqual(_, _)
InsertByScore_BeforeEqual(sorted, r) ==
  IF sorted = << >> THEN << r >>
  ELSE IF FracLeq(Head(sorted).score, r.score)
       THEN << r >> \o sorted
       ELSE << Head(sorted) >> \o InsertByScore_BeforeEqual(Tail(sorted), r)

\* list.sort(key=score, reverse=True): stable, equal scores keep their order
RECURSIVE InsertByScore(_, _)
InsertByScore(sorted, r) ==
  IF sorted = << >> THEN << r >>
  ELSE IF FracLess(Head(sorted).score, r.score)
       THEN << r >> \o sorted
       ELSE << Head(sorted) >> \o InsertByScore(Tail(sorted), r)

RECURSIVE SortByScoreDesc(_, _)
SortByScoreDesc(results, acc) ==
  IF results = << >> THEN acc
  ELSE SortByScoreDesc(Tail(results), InsertByScore(acc, Head(results)))

\* seq[idx] with Python's indexing (rows numbered from 0, negative from the end)
PyIndex(seq, idx) == IF idx < 0 THEN seq[Len(seq) + idx + 1] ELSE seq[idx + 1]

\* mutant: the two parts are added without their weights
AdjustedScore_Unweighted(raw, overlap) ==
  Frac(10 * raw * overlap.d + 1000 * overlap.n, 1000 * overlap.d)

\* raw_score * 0.6 + word_overlap * 0.4, raw_score in hundredths
AdjustedScore(raw, overlap) ==
  Frac(6 * raw * overlap.d + 400 * overlap.n, 1000 * overlap.d)

\* mutant: the item is taken from the knowledge base at the row of the phrase
PhraseItem_ByRow(kb, st, text) ==
  kb[Min(CHOOSE p \in 1..Len(st.all_questions) : st.all_questions[p] = text,
         Len(kb))]

\* item = self.question_to_answer[matched_text]
PhraseItem(kb, st, text) == kb[DictGet(st.question_to_answer, text)]

\* mutant: duplicates are recognised by the whole answer
AnswerKey_WholeAnswer(answer) == answer

\* item['answer'][:100]
AnswerKey(answer) == Prefix(answer, 100)

\* mutant: the similarity alone discards no candidate
BelowThreshold_Never(raw_score, threshold) == FALSE

\* if raw_score < threshold: continue
BelowThreshold(raw_score, threshold) == raw_score < threshold

\* mutant: the loops never stop early
TopKReached_Never(results, top_k) == FALSE

\* if len(results) >= top_k: break
TopKReached(results, top_k) == Len(results) >= top_k

\* the for loop, from position i on
RECURSIVE NeuralLoop(_, _, _, _, _, _, _, _)
NeuralLoop(kb, st, retrieved, clean_query, top_k, threshold, i, acc) ==
  IF i > Len(retrieved) THEN acc
  ELSE IF BelowThreshold(retrieved[i].score, threshold)
  THEN NeuralLoop(kb, st, retrieved, clean_query, top_k, threshold, i + 1, acc)
  ELSE
    LET raw_score == retrieved[i].score
        acc0 == [acc EXCEPT !.lookups = Append(@, retrieved[i].idx)]
        matched_text == PyIndex(st.all_questions,
                                IF retrieved[i].idx < 0 THEN retrieved[i].idx
                                ELSE retrieved[i].idx - 1)
        item == PhraseItem(kb, st, matched_text)
        word_overlap == calculate_word_overlap(clean_query, matched_text)
        adjusted_score == AdjustedScore(raw_score, word_overlap)
        skip == \/ FracLess(word_overlap, Frac(3, 10))
                \/ FracLess(adjusted_score, Hundredths(threshold))
                \/ AnswerKey(item.answer) \in acc.seen_answers
    IN IF skip
       THEN NeuralLoop(kb, st, retrieved, clean_query, top_k, threshold, i + 1,
                       acc0)
       ELSE LET acc1 ==
                  [results |-> Append(acc.results,
                     [question |-> item.question, answer |-> item.answer,
                      score |-> adjusted_score, raw_score |-> raw_score,
                      match_type |-> "neural", matched_variation |-> matched_text,
                      word_overlap |-> word_overlap]),
                   seen_answers |-> acc.seen_answers \cup {AnswerKey(item.answer)},
                   lookups |-> acc0.lookups]
            IN IF TopKReached(acc1.results, top_k) THEN acc1
               ELSE NeuralLoop(kb, st, retrieved, clean_query, top_k, threshold,
                               i + 1, acc1)

\* mutant: the results are returned in the order of their emission
neural_search_Unsorted(kb, st, retrieved, clean_query, top_k, threshold) ==
  NeuralLoop(kb, st, retrieved, clean_query, top_k, threshold, 1,
             [results |-> << >>, seen_answers |-> {}, lookups |-> << >>]).results

neural_search(kb, st, retrieved, clean_query, top_k, threshold) ==
  SortByScoreDesc(
    NeuralLoop(kb, st, retrieved, clean_query, top_k, threshold, 1,
               [results |-> << >>, seen_answers |-> {},
                lookups |-> << >>]).results,
    << >>)

\* the labels of the index's answer with which all_questions was read
\* (matched_text = self.all_questions[idx]), in the order of the reads
neural_lookups(kb, st, retrieved, clean_query, top_k, threshold) ==
  NeuralLoop(kb, st, retrieved, clean_query, top_k, threshold, 1,
             [results |-> << >>, seen_answers |-> {}, lookups |-> << >>]).lookups

(***************************************************************************)
(* rapidfuzz.fuzz.token_set_ratio and rapidfuzz.process.extract            *)
(***************************************************************************)
\* the order of the characters (their code points)
Alphabet ==
  << " ", "1", "_", "a", "c", "d", "e", "f", "g", "h", "k", "n", "t", "u",
     "v", "y", "z" >>
CharCode(c) == CHOOSE i \in 1..Len(Alphabet) : Alphabet[i] = c

\* s < t in the order of Python strings
RECURSIVE StrLess(_, _)
StrLess(s, t) ==
  IF t = << >> THEN FALSE
  ELSE IF s = << >> THEN TRUE
  ELSE IF Head(s) = Head(t) THEN StrLess(Tail(s), Tail(t))
  ELSE CharCode(Head(s)) < CharCode(Head(t))

\* " ".join(sorted(tokens))
RECURSIVE JoinSorted(_)
JoinSorted(tokens) ==
  IF tokens = {} THEN << >>
  ELSE LET first == CHOOSE w \in tokens : \A u \in tokens \ {w} : StrLess(w, u)
       IN IF tokens = {first} THEN first
          ELSE first \o << " " >> \o JoinSorted(tokens \ {first})

FracMax(a, b) == IF FracLess(a, b) THEN b ELSE a

token_set_ratio(s1, s2) ==
  LET tokens_a == SeqToSet(Split(s1))
      tokens_b == SeqToSet(Split(s2))
      intersect == tokens_a \cap tokens_b
      diff_ab == tokens_a \ tokens_b
      diff_ba == tokens_b \ tokens_a
      diff_ab_joined == JoinSorted(diff_ab)
      diff_ba_joined == JoinSorted(diff_ba)
      ab_len == Len(diff_ab_joined)
      ba_len == Len(diff_ba_joined)
      sect_len == Len(JoinSorted(intersect))
      sep == IF sect_len # 0 THEN 1 ELSE 0
      sect_ab_len == sect_len + sep + ab_len
      sect_ba_len == sect_len + sep + ba_len
      result == NormDistance(IndelDistance(diff_ab_joined, diff_ba_joined),
                             sect_ab_len + sect_ba_len)
      sect_ab_ratio == NormDistance(sep + ab_len, sect_len + sect_ab_len)
      sect_ba_ratio == NormDistance(sep + ba_len, sect_len + sect_ba_len)
  IN IF tokens_a = {} \/ tokens_b = {} THEN Frac(0, 1)
     ELSE IF intersect # {} /\ (diff_ab = {} \/ diff_ba = {}) THEN Frac(100, 1)
     ELSE IF sect_len = 0 THEN result
     ELSE FracMax(FracMax(result, sect_ab_ratio), sect_ba_ratio)

\* process.extract(query, choices, scorer=token_set_ratio, limit=limit):
\* the (choice, score) pairs by descending score, equal scores in the order
\* of the choices, cut to `limit`
RECURSIVE ScoreChoices(_, _, _)
ScoreChoices(clean_query, choices, i) ==
  IF i > Len(choices) THEN << >>
  ELSE << [text |-> choices[i], score |-> token_set_ratio(clean_query, choices[i])] >>
       \o ScoreChoices(clean_query, choices, i + 1)

process_extract(clean_query, choices, limit) ==
  LET sorted == SortByScoreDesc(ScoreChoices(clean_query, choices, 1), << >>)
  IN SubSeq(sorted, 1, Min(limit, Len(sorted)))

(***************************************************************************)
(* NeuralSearcher._fuzzy_search                                            *)
(***************************************************************************)
\* mutant: no match is discarded for its ratio
LowRatio_Never(match_score) == FALSE

\* if match_score < 70: continue
LowRatio(match_score) == FracLess(match_score, Frac(70, 1))

RECURSIVE FuzzyLoop(_, _, _, _, _, _, _)
FuzzyLoop(kb, st, matches, clean_query, top_k, i, acc) ==
  IF i > Len(matches) THEN acc.results
  ELSE
    LET match_text == matches[i].text
        match_score == matches[i].score
        word_overlap == calculate_word_overlap(clean_query, match_text)
        item == PhraseItem(kb, st, match_text)
        skip == \/ LowRatio(match_score)
                \/ FracLess(word_overlap, Frac(3, 10))
                \/ AnswerKey(item.answer) \in acc.seen_answers
    IN IF skip
       THEN FuzzyLoop(kb, st, matches, clean_query, top_k, i + 1, acc)
       ELSE LET acc1 ==
                  [results |-> Append(acc.results,
                     [question |-> item.question, answer |-> item.answer,
                      score |-> Frac(match_score.n, 100 * match_score.d),
                      match_type |-> "fuzzy", matched_variation |-> match_text,
                      word_overlap |-> word_overlap]),
                   seen_answers |-> acc.seen_answers \cup {AnswerKey(item.answer)}]
            IN IF TopKReached(acc1.results, top_k) THEN acc1.results
               ELSE FuzzyLoop(kb, st, matches, clean_query, top_k, i + 1, acc1)

fuzzy_search(kb, st, clean_query, top_k) ==
  FuzzyLoop(kb, st, process_extract(clean_query, st.all_questions, top_k * 2),
            clean_query, top_k, 1, [results |-> << >>, seen_answers |-> {}])

(***************************************************************************)
(* The state: the searcher's structures and one search call in progress.   *)
(***************************************************************************)
(***************************************************************************)
(* NeuralSearcher.search as one call: the set of the ways it can end for a *)
(* searcher built on kb, the embedder yielding the similarities of sims.   *)
(* A way is the list returned, or the exception of the embedder that       *)
(* search does not handle.                                                 *)
(***************************************************************************)
Returns(list) == [raised |-> FALSE, results |-> list]
Raises == [raised |-> TRUE, results |-> << >>]

search(kb, sims, q, k, t) ==
  LET st == prepare_search_index(kb)
      sig == build_keyword_index(kb)
      cq == clean_text(q)
      kw == check_keywords(kb, st.hardcoded_keywords_map, cq)
      neural(nb) == neural_search(kb, st, nb, cq, k, t)
  IN IF Falsy(q) \/ st.index.is_none THEN {Returns(<< >>)}
     ELSE IF cq = << >> \/ Len(cq) < 2 THEN {Returns(<< >>)}
     ELSE IF kw # << >> THEN {Returns(kw)}
     ELSE IF ~has_relevant_words(st.hardcoded_keywords_map, sig, q)
     THEN {Returns(<< >>)}
     ELSE {Raises} \cup
          {IF neural(nb) # << >> THEN Returns(neural(nb))
           ELSE Returns(fuzzy_search(kb, st, cq, k)) :
             nb \in index_search_of(sims, st.index.rows, cq, k * 3)}

VARIABLES
  knowledge_base,          \* self.knowledge_base
  all_questions,           \* self.all_questions
  question_to_answer,      \* self.question_to_answer
  hardcoded_keywords_map,  \* self.hardcoded_keywords_map
  significant_words,       \* self.significant_words
  index,                   \* self.index
  pc,                      \* where the call of search is
  query, top_k, threshold, \* the arguments of the call
  clean_query,             \* the local clean_query
  stages,                  \* the stages the call has run so far, in order
  results,                 \* the list the call returns
  retrieved,               \* the answer of the index, kept when _neural_search
                           \* is called on its own (SpecNeural)
  matched_text,            \* the text _calculate_word_overlap compared the
                           \* query with, when it is called on its own
  word_overlap,            \* what _calculate_word_overlap returned, when it is
                           \* called on its own (SpecText)
  has_relevant,            \* what _has_relevant_words returned, when it is
                           \* called on its own (SpecIndex)
  extracted,               \* what process.extract returned, when _fuzzy_search is
                           \* called on its own (SpecFuzzy)
  lookups,                 \* the positions _neural_search read all_questions at,
                           \* when it is called on its own (SpecNeural)
  search_outcomes,         \* the ways TelegramBot.searcher can answer a text
  pending_confirmations,   \* TelegramBot.pending_confirmations
  admin_pending_replies,   \* TelegramBot.admin_pending_replies
  pending_feedback,        \* TelegramBot.pending_feedback
  unknown_questions,       \* UserManager.unknown_questions
  feedback,                \* FeedbackManager.feedback
  update,                  \* the update the bot handled last
  sent,                    \* what the bot sent while it handled `update`
  updates,                 \* the number of the updates handled so far
  raised,                  \* the call ended with an exception
  embedder_failed          \* self.model.encode failed in this call

structures ==
  << knowledge_base, all_questions, question_to_answer,
     hardcoded_keywords_map, significant_words, index >>
call ==
  << pc, query, top_k, threshold, clean_query, stages, results, raised,
     embedder_failed >>
\* the state of the TelegramBot object and of its managers, and the update
\* it handled last
bot ==
  << pending_confirmations, admin_pending_replies, pending_feedback,
     unknown_questions, feedback, update, sent, updates >>
standalone ==
  << retrieved, matched_text, word_overlap, has_relevant, extracted, lookups,
     search_outcomes, bot >>
vars == << structures, call, standalone >>

\* an update, as the handlers read it: the handler it is routed to, the user
\* it comes from, the text of the message or the question of the callback,
\* the action, message id, variant and user id of the callback data, and
\* whether the handler ended with an exception
Update(handler, user, text, action, message_id, variant, target, raises) ==
  [handler |-> handler, user |-> user, text |-> text, action |-> action,
   message_id |-> message_id, variant |-> variant, target |-> target,
   raises |-> raises]

\* no update was handled yet
NoUpdate == Update("none", 0, << >>, "none", 0, 0, 0, FALSE)

\* TelegramBot.__init__, after the searcher: the dicts are empty; the logs of
\* the managers are those of a first start (no file to load)
TelegramBotInit ==
  /\ pending_confirmations = << >>
  /\ admin_pending_replies = << >>
  /\ pending_feedback = << >>
  /\ unknown_questions = << >>
  /\ feedback = << >>
  /\ update = NoUpdate
  /\ sent = << >>
  /\ updates = 0

\* the texts search is called with
Queries ==
  {None, << >>, t_punct, << "a" >>, w_dekanat, t_GdeDekanatQ, w_dekan,
   w_dekana, w_dekanu, t_gde_vuz, t_kak_gde, w_fyva, w_zachet, w_zacheta}

\* the phrase list and its owners, as the search operators take them
Phrases ==
  [all_questions |-> all_questions, question_to_answer |-> question_to_answer]

\* NeuralSearcher.__init__ on one of the knowledge bases; no call in progress
Init ==
  /\ knowledge_base \in Corpora
  /\ all_questions = prepare_search_index(knowledge_base).all_questions
  /\ question_to_answer = prepare_search_index(knowledge_base).question_to_answer
  /\ hardcoded_keywords_map =
       prepare_search_index(knowledge_base).hardcoded_keywords_map
  /\ index = prepare_search_index(knowledge_base).index
  /\ significant_words = build_keyword_index(knowledge_base)
  /\ pc = "idle"
  /\ query = << >>
  /\ top_k = 1
  /\ threshold = 55
  /\ clean_query = << >>
  /\ stages = << >>
  /\ results = << >>
  /\ retrieved = << >>
  /\ matched_text = << >>
  /\ word_overlap = Frac(0, 1)
  /\ lookups = << >>
  /\ search_outcomes = {}
  /\ TelegramBotInit
  /\ extracted = << >>
  /\ has_relevant = FALSE
  /\ raised = FALSE
  /\ embedder_failed = FALSE

\* mutant: the test  len(clean_query) < 2  is missing
Search_NoLengthCheck(q, k, t) ==
  /\ pc = "idle"
  /\ query' = q
  /\ top_k' = k
  /\ threshold' = t
  /\ clean_query' = IF Falsy(q) \/ index.is_none THEN << >> ELSE clean_text(q)
  /\ pc' = IF Falsy(q) \/ index.is_none THEN "done"
           ELSE IF clean_text(q) = << >> THEN "done"
           ELSE "keywords"
  /\ UNCHANGED << structures, stages, results, standalone, raised,
                  embedder_failed >>

\* search(q, k, t) is called: the two early returns, and clean_text
Search(q, k, t) ==
  /\ pc = "idle"
  /\ query' = q
  /\ top_k' = k
  /\ threshold' = t
  /\ clean_query' = IF Falsy(q) \/ index.is_none THEN << >> ELSE clean_text(q)
  /\ pc' = IF Falsy(q) \/ index.is_none THEN "done"
           ELSE IF clean_text(q) = << >> \/ Len(clean_text(q)) < 2 THEN "done"
           ELSE "keywords"
  /\ UNCHANGED << structures, stages, results, standalone, raised,
                  embedder_failed >>

\* the top_k debug_search passes to search, and the default threshold (0.55)
DebugTopK == 5
DefaultThreshold == 55

\* debug_search(q): clean_text, _get_significant_words and _has_relevant_words
\* are read for the report, then search(q, top_k=5) is called
DebugSearch(q) == Search(q, DebugTopK, DefaultThreshold)

\* mutant: a keyword match does not end the call
CheckKeywords_NoShortCircuit ==
  /\ pc = "keywords"
  /\ stages' = Append(stages, "keywords")
  /\ results' = check_keywords(knowledge_base, hardcoded_keywords_map, clean_query)
  /\ pc' = "gate"
  /\ UNCHANGED << structures, query, top_k, threshold, clean_query, standalone,
                  raised, embedder_failed >>

\* 1. _check_keywords; a match is returned alone
CheckKeywords ==
  /\ pc = "keywords"
  /\ stages' = Append(stages, "keywords")
  /\ results' = check_keywords(knowledge_base, hardcoded_keywords_map, clean_query)
  /\ pc' = IF results' # << >> THEN "done" ELSE "gate"
  /\ UNCHANGED << structures, query, top_k, threshold, clean_query, standalone,
                  raised, embedder_failed >>

\* mutant: only the first of the two returns of [] is there
RelevanceGate_FirstReturnOnly ==
  /\ pc = "gate"
  /\ stages' = Append(stages, "gate")
  /\ pc' = IF /\ get_significant_words(query) = {}
              /\ ~has_relevant_words(hardcoded_keywords_map, significant_words, query)
           THEN "done"
           ELSE "neural"
  /\ UNCHANGED << structures, query, top_k, threshold, clean_query, results,
                  standalone, raised, embedder_failed >>

\* 2. _get_significant_words and _has_relevant_words; the two returns of []
RelevanceGate ==
  /\ pc = "gate"
  /\ stages' = Append(stages, "gate")
  /\ pc' = IF /\ get_significant_words(query) = {}
              /\ ~has_relevant_words(hardcoded_keywords_map, significant_words, query)
           THEN "done"
           ELSE IF ~has_relevant_words(hardcoded_keywords_map, significant_words, query)
           THEN "done"
           ELSE "neural"
  /\ UNCHANGED << structures, query, top_k, threshold, clean_query, results,
                  standalone, raised, embedder_failed >>

\* mutant: the fuzzy search runs whatever the vector search returned
NeuralSearch_AlwaysFuzzy ==
  /\ pc = "neural"
  /\ stages' = Append(stages, "neural")
  /\ \E nb \in index_search(index.rows, clean_query, top_k * 3) :
       results' = neural_search(knowledge_base, Phrases, nb, clean_query,
                                top_k, threshold)
  /\ pc' = "fuzzy"
  /\ UNCHANGED << structures, query, top_k, threshold, clean_query, standalone,
                  raised, embedder_failed >>

\* 3. _neural_search: the embedder answers and the index is searched
NeuralSearch ==
  /\ pc = "neural"
  /\ stages' = Append(stages, "neural")
  /\ \E nb \in index_search(index.rows, clean_query, top_k * 3) :
       results' = neural_search(knowledge_base, Phrases, nb, clean_query,
                                top_k, threshold)
  /\ pc' = IF results' # << >> THEN "done" ELSE "fuzzy"
  /\ UNCHANGED << structures, query, top_k, threshold, clean_query, standalone,
                  raised, embedder_failed >>

\* 3. _neural_search: self.model.encode raises; search has no handler
EmbedderFails ==
  /\ pc = "neural"
  /\ stages' = Append(stages, "neural")
  /\ embedder_failed' = TRUE
  /\ raised' = TRUE
  /\ pc' = "done"
  /\ UNCHANGED << structures, query, top_k, threshold, clean_query, results,
                  standalone >>

\* mutant: the fuzzy search registers the query as a phrase
FuzzySearch_RegistersQuery ==
  /\ pc = "fuzzy"
  /\ stages' = Append(stages, "fuzzy")
  /\ results' = fuzzy_search(knowledge_base, Phrases, clean_query, top_k)
  /\ all_questions' = Append(all_questions, clean_query)
  /\ pc' = "done"
  /\ UNCHANGED << knowledge_base, question_to_answer, hardcoded_keywords_map,
                  significant_words, index, query, top_k, threshold,
                  clean_query, standalone, raised, embedder_failed >>

\* 4. _fuzzy_search
FuzzySearch ==
  /\ pc = "fuzzy"
  /\ stages' = Append(stages, "fuzzy")
  /\ results' = fuzzy_search(knowledge_base, Phrases, clean_query, top_k)
  /\ pc' = "done"
  /\ UNCHANGED << structures, query, top_k, threshold, clean_query, standalone,
                  raised, embedder_failed >>

\* the caller takes the list (or the exception); the next call may start
Return ==
  /\ pc = "done"
  /\ pc' = "idle"
  /\ query' = << >>
  /\ top_k' = 1
  /\ threshold' = 55
  /\ clean_query' = << >>
  /\ stages' = << >>
  /\ results' = << >>
  /\ retrieved' = << >>
  /\ matched_text' = << >>
  /\ word_overlap' = Frac(0, 1)
  /\ lookups' = << >>
  /\ UNCHANGED << search_outcomes, bot >>
  /\ extracted' = << >>
  /\ has_relevant' = FALSE
  /\ raised' = FALSE
  /\ embedder_failed' = FALSE
  /\ UNCHANGED structures

Next ==
  \/ \E q \in Queries, k \in 1..MaxTopK, t \in Thresholds : Search(q, k, t)
  \/ \E q \in Queries : DebugSearch(q)
  \/ CheckKeywords
  \/ RelevanceGate
  \/ NeuralSearch
  \/ EmbedderFails
  \/ FuzzySearch
  \/ Return

Spec == Init /\ [][Next]_vars

(***************************************************************************)
(* _neural_search called on its own, on every normalized query, with the   *)
(* answer of the index kept in the state.                                  *)
(***************************************************************************)
\* the normalized texts _neural_search is called with
CleanQueries == {clean_text(q) : q \in Queries} \ { << >> }

\* NeuralSearcher.__init__ on a knowledge base of one or two items that has
\* an index
InitNeural ==
  /\ Init
  /\ Len(knowledge_base) <= 2
  /\ ~index.is_none

\* _neural_search(q, k, t), from the call of the index to the return
NeuralSearchCall(q, k, t) ==
  /\ pc = "idle"
  /\ query' = q
  /\ clean_query' = q
  /\ top_k' = k
  /\ threshold' = t
  /\ retrieved' \in index_search(index.rows, q, k * 3)
  /\ results' = neural_search(knowledge_base, Phrases, retrieved', q, k, t)
  /\ lookups' = neural_lookups(knowledge_base, Phrases, retrieved', q, k, t)
  /\ stages' = << "neural" >>
  /\ pc' = "done"
  /\ UNCHANGED << structures, matched_text, word_overlap, has_relevant,
                  extracted, search_outcomes, bot, raised,
                  embedder_failed >>

NextNeural ==
  \/ \E q \in CleanQueries, k \in 1..MaxTopK, t \in Thresholds :
       NeuralSearchCall(q, k, t)
  \/ Return

SpecNeural == InitNeural /\ [][NextNeural]_vars

(***************************************************************************)
(* _fuzzy_search called on its own, on every normalized query, with the    *)
(* answer of process.extract kept in the state.                            *)
(***************************************************************************)
\* _fuzzy_search(q, k), from the call of process.extract to the return
FuzzySearchCall(q, k) ==
  /\ pc = "idle"
  /\ query' = q
  /\ clean_query' = q
  /\ top_k' = k
  /\ extracted' = process_extract(q, all_questions, k * 2)
  /\ results' = fuzzy_search(knowledge_base, Phrases, q, k)
  /\ stages' = << "fuzzy" >>
  /\ pc' = "done"
  /\ UNCHANGED << structures, threshold, retrieved, matched_text, word_overlap,
                  has_relevant, lookups, search_outcomes, bot, raised,
                  embedder_failed >>

NextFuzzy ==
  \/ \E q \in CleanQueries, k \in 1..MaxTopK : FuzzySearchCall(q, k)
  \/ Return

SpecFuzzy == Init /\ [][NextFuzzy]_vars

(***************************************************************************)
(* clean_text and _calculate_word_overlap called on their own, on every    *)
(* text of at most MaxLen characters and on the texts of the searches.     *)
(***************************************************************************)
\* a letter, an upper-case letter, a digit, the underscore, a punctuation
\* mark and the space
TextChars == {"a", "D", "1", "_", "?", " "}

RECURSIVE StringsUpTo(_)
StringsUpTo(n) ==
  IF n = 0 THEN { << >> }
  ELSE LET shorter == StringsUpTo(n - 1)
       IN shorter \cup {Append(t, c) : t \in {u \in shorter : Len(u) = n - 1},
                                       c \in TextChars}

Texts == StringsUpTo(MaxLen) \cup Queries \cup {t_zachet_vuz, t_gde_zachet_vuz}

\* a searcher on the empty knowledge base, and the text of the call
InitText ==
  /\ knowledge_base = << >>
  /\ all_questions = prepare_search_index(knowledge_base).all_questions
  /\ question_to_answer = prepare_search_index(knowledge_base).question_to_answer
  /\ hardcoded_keywords_map =
       prepare_search_index(knowledge_base).hardcoded_keywords_map
  /\ index = prepare_search_index(knowledge_base).index
  /\ significant_words = build_keyword_index(knowledge_base)
  /\ pc = "idle"
  /\ query \in Texts
  /\ top_k = 1
  /\ threshold = 55
  /\ clean_query = << >>
  /\ stages = << >>
  /\ results = << >>
  /\ retrieved = << >>
  /\ matched_text = << >>
  /\ word_overlap = Frac(0, 1)
  /\ lookups = << >>
  /\ search_outcomes = {}
  /\ TelegramBotInit
  /\ extracted = << >>
  /\ has_relevant = FALSE
  /\ raised = FALSE
  /\ embedder_failed = FALSE

\* clean_text(query)
CleanText ==
  /\ pc = "idle"
  /\ clean_query' = clean_text(query)
  /\ pc' = "cleaned"
  /\ UNCHANGED << structures, query, top_k, threshold, stages, results,
                  standalone, raised, embedder_failed >>

\* the texts the query is compared with, besides the query itself
MatchedTexts == {w_dekan, w_dekanat, t_gde_dekanat, t_zacheta_vuz}

\* _calculate_word_overlap(query, m), for a query that is a string
CalculateWordOverlap(m) ==
  /\ pc = "idle"
  /\ query # None
  /\ matched_text' = m
  /\ word_overlap' = calculate_word_overlap(query, m)
  /\ pc' = "overlap"
  /\ UNCHANGED << structures, query, top_k, threshold, clean_query, stages,
                  results, retrieved, has_relevant, extracted, lookups, search_outcomes,
                  bot,
                  raised, embedder_failed >>

NextText ==
  \/ CleanText
  \/ \E m \in MatchedTexts \cup {query} : CalculateWordOverlap(m)

SpecText == InitText /\ [][NextText]_vars

(***************************************************************************)
(* The construction of the searcher, step by step, and the searches on it. *)
(* The structures are built by __init__ only; the object is handed to the  *)
(* callers when __init__ has returned (pc = "idle").                       *)
(***************************************************************************)
\* NeuralSearcher.__init__ has stored the knowledge base; nothing is built
InitBuild ==
  /\ knowledge_base \in Corpora
  /\ all_questions = << >>
  /\ question_to_answer = << >>
  /\ hardcoded_keywords_map = << >>
  /\ index = index_none
  /\ significant_words = {}
  /\ pc = "prepare_search_index"
  /\ query = << >>
  /\ top_k = 1
  /\ threshold = 55
  /\ clean_query = << >>
  /\ stages = << >>
  /\ results = << >>
  /\ retrieved = << >>
  /\ matched_text = << >>
  /\ word_overlap = Frac(0, 1)
  /\ lookups = << >>
  /\ search_outcomes = {}
  /\ TelegramBotInit
  /\ extracted = << >>
  /\ has_relevant = FALSE
  /\ raised = FALSE
  /\ embedder_failed = FALSE

\* mutant: __init__ returns after _prepare_search_index, without the call of
\* _build_keyword_index
PrepareSearchIndex_LastStep ==
  /\ pc = "prepare_search_index"
  /\ all_questions' = prepare_search_index(knowledge_base).all_questions
  /\ question_to_answer' = prepare_search_index(knowledge_base).question_to_answer
  /\ hardcoded_keywords_map' =
       prepare_search_index(knowledge_base).hardcoded_keywords_map
  /\ index' = prepare_search_index(knowledge_base).index
  /\ pc' = "idle"
  /\ UNCHANGED << knowledge_base, significant_words, query, top_k, threshold,
                  clean_query, stages, results, standalone, raised,
                  embedder_failed >>

\* self._prepare_search_index()
PrepareSearchIndex ==
  /\ pc = "prepare_search_index"
  /\ all_questions' = prepare_search_index(knowledge_base).all_questions
  /\ question_to_answer' = prepare_search_index(knowledge_base).question_to_answer
  /\ hardcoded_keywords_map' =
       prepare_search_index(knowledge_base).hardcoded_keywords_map
  /\ index' = prepare_search_index(knowledge_base).index
  /\ pc' = "build_keyword_index"
  /\ UNCHANGED << knowledge_base, significant_words, query, top_k, threshold,
                  clean_query, stages, results, standalone, raised,
                  embedder_failed >>

\* self._build_keyword_index(); __init__ returns
BuildKeywordIndex ==
  /\ pc = "build_keyword_index"
  /\ significant_words' = build_keyword_index(knowledge_base)
  /\ pc' = "idle"
  /\ UNCHANGED << knowledge_base, all_questions, question_to_answer,
                  hardcoded_keywords_map, index, query, top_k, threshold,
                  clean_query, stages, results, standalone, raised,
                  embedder_failed >>

NextBuild ==
  \/ PrepareSearchIndex
  \/ BuildKeywordIndex
  \/ Next

SpecBuild == InitBuild /\ [][NextBuild]_vars

(***************************************************************************)
(* The construction of the searcher, step by step, on the knowledge bases  *)
(* of the searches and on knowledge bases where an item declares a keyword *)
(* of another item again; then _has_relevant_words and _check_keywords     *)
(* called on their own, as debug_search calls the first.                   *)
(***************************************************************************)
\* an item that declares the keyword of ItemDekanat, and one of its own
ItemDekanu ==
  [question |-> w_dekanu, variations |-> << w_dekanu, w_dekanu >>,
   keywords |-> << w_dekanat, w_dekanu, w_dekanat >>, answer |-> ans_B]

IndexCorpora ==
  Corpora \cup {Append(kb, ItemDekanu) : kb \in Corpora}
          \cup {<< ItemDekanu >> \o kb : kb \in Corpora}

\* NeuralSearcher.__init__ has stored the knowledge base; nothing is built
InitIndex ==
  /\ knowledge_base \in IndexCorpora
  /\ all_questions = << >>
  /\ question_to_answer = << >>
  /\ hardcoded_keywords_map = << >>
  /\ index = index_none
  /\ significant_words = {}
  /\ pc = "prepare_search_index"
  /\ query = << >>
  /\ top_k = 1
  /\ threshold = 55
  /\ clean_query = << >>
  /\ stages = << >>
  /\ results = << >>
  /\ retrieved = << >>
  /\ matched_text = << >>
  /\ word_overlap = Frac(0, 1)
  /\ lookups = << >>
  /\ search_outcomes = {}
  /\ TelegramBotInit
  /\ extracted = << >>
  /\ has_relevant = FALSE
  /\ raised = FALSE
  /\ embedder_failed = FALSE

\* the texts _has_relevant_words is called with
RelevanceQueries == Queries \cup {w_gde}

\* _has_relevant_words(q)
HasRelevantWords(q) ==
  /\ pc = "idle"
  /\ query' = q
  /\ has_relevant' =
       has_relevant_words(hardcoded_keywords_map, significant_words, q)
  /\ pc' = "relevance"
  /\ UNCHANGED << structures, top_k, threshold, clean_query, stages, results,
                  retrieved, matched_text, word_overlap, extracted, lookups,
                  search_outcomes, bot, raised, embedder_failed >>

\* _check_keywords(q), on a normalized query
CheckKeywordsCall(q) ==
  /\ pc = "idle"
  /\ query' = q
  /\ clean_query' = q
  /\ results' = check_keywords(knowledge_base, hardcoded_keywords_map, q)
  /\ pc' = "checked"
  /\ UNCHANGED << structures, top_k, threshold, stages, standalone, raised,
                  embedder_failed >>

NextIndex ==
  \/ PrepareSearchIndex
  \/ BuildKeywordIndex
  \/ \E q \in RelevanceQueries : HasRelevantWords(q)
  \/ \E q \in CleanQueries : CheckKeywordsCall(q)

SpecIndex == InitIndex /\ [][NextIndex]_vars

(***************************************************************************)
(* The Telegram front-end (src/bot_handlers.py, src/user_manager.py,       *)
(* src/feedback_manager.py).  One action is one update handled to its end. *)
(* A Telegram request succeeds unless the handler catches its failure; the *)
(* chat history of SessionManager and the profiles of UserManager, which   *)
(* no handler below reads, are left out.                                   *)
(***************************************************************************)
\* the updates one behaviour handles: while two students ask and confirm,
\* and while a student asks and rates and an admin answers
MaxUpdates == 3
MaxTurns == 4

\* the answer of a knowledge-base item that is longer than the part of an
\* answer the feedback log keeps
ans_L == [i \in 1..201 |-> IF i = 201 THEN "e" ELSE "d"]
ItemDekanLong == [ItemDekan EXCEPT !.answer = ans_L]

\* config.KNOWLEDGE_BASE, as the searcher of the bot is built on it
BotKnowledgeBase == << ItemDekanLong, ItemZachet >>
\* the similarities the embedder yields for the phrases of this base
BotSimValues == {60, 100}

\* TelegramBot._admin_ids: the entries of config.ADMIN_IDS that are integers
AdminIds == {8, 9}
\* the users who write to the bot or press its buttons: two students, or a
\* student and an admin
Students == {1, 2}
Staff == {1, 9}

\* is_admin
is_admin(user_id) == user_id \in AdminIds

\* the caption "❌ Отменить ответ" of the admin's reply keyboard ("#" is the
\* sign, the words are shortened)
t_cancel == << "#", " ", "n", "e", "t" >>
\* the caption "ℹ️ О боте" of the main keyboard
t_about == << "#", " ", "v", "u", "z" >>
t_dekana_zacheta == w_dekana \o << " " >> \o w_zacheta

\* the texts of the messages the bot receives: those the students ask, and
\* those written while an admin answers
QuestionTexts == {w_dekan, t_zachet_vuz, t_dekana_zacheta, w_fyva}
StaffTexts == {t_gde_vuz, w_dekan, t_cancel, t_about}
\* the questions whose answers carried the feedback buttons that are pressed
RatedQuestions == {t_gde_vuz, w_dekan}
MessageTexts == QuestionTexts \cup StaffTexts

\* the menu captions handle_message answers before the search
MenuCaptions == {t_about}

\* the keyboard patterns of is_likely_real_question that the alphabet of the
\* model can write ('фыва')
keyboard_patterns == {w_fyva}

\* is_likely_real_question
is_likely_real_question(text) ==
  LET clean == CollapseSpaces(Lower(Strip(text)))
      letters == {clean[i] : i \in {j \in 1..Len(clean) : clean[j] # " "}}
  IN /\ ~(Len(clean) < 3)
     /\ \A pattern \in keyboard_patterns : ~Contains(clean, pattern)
     /\ ~(Cardinality(letters) <= 2 /\ Len(clean) > 5)

\* self.searcher.search(text, top_k=5): the ways the call can end, tabulated
\* for every text the bot receives
SearchTopK == 5
BotSearchTable ==
  UNION {{[text |-> text, outcome |-> outcome] :
            outcome \in search(BotKnowledgeBase, BotSimValues, text,
                               SearchTopK, DefaultThreshold)} :
         text \in MessageTexts}
\* the ways the call can end for text, read from the table of the run
BotSearch(text) ==
  {row.outcome : row \in {x \in search_outcomes : x.text = text}}

\* the scores handle_message compares the best score with, in hundredths
HighConfidence == 80
MediumConfidence == 60

\* del d[k]
DictDel(d, k) == SelectSeq(d, LAMBDA e : e.key # k)

\* dict.get(k, default)
DictGetOr(d, k, default) == IF k \in DictKeys(d) THEN DictGet(d, k) ELSE default

\* _generate_feedback_hash: the digest of the user id and the question, taken
\* as free of collisions
generate_feedback_hash(user_id, question) == << user_id, question >>

\* _save_pending_feedback keeps at most PendingFeedbackMax contexts: beyond
\* that the PendingFeedbackDropped oldest are deleted
PendingFeedbackMax == 1000
PendingFeedbackDropped == 100

\* _save_pending_feedback: the dict after the call
save_pending_feedback(pf, user_id, question, answer) ==
  LET d == DictSet(pf, generate_feedback_hash(user_id, question),
                   [user_id |-> user_id, question |-> question,
                    answer |-> answer])
  IN IF Len(d) > PendingFeedbackMax
     THEN SubSeq(d, PendingFeedbackDropped + 1, Len(d))
     ELSE d

\* FeedbackManager.add_feedback keeps the first FeedbackAnswerChars
\* characters of the answer
FeedbackAnswerChars == 200

\* mutant: the feedback log keeps the whole answer
add_feedback_WholeAnswer(fb, user_id, question, answer, is_helpful) ==
  Append(fb, [user_id |-> user_id, question |-> question,
              answer |-> answer, is_helpful |-> is_helpful])

\* FeedbackManager.add_feedback: the log after the call
add_feedback(fb, user_id, question, answer, is_helpful) ==
  Append(fb, [user_id |-> user_id, question |-> question,
              answer |-> Prefix(answer, FeedbackAnswerChars),
              is_helpful |-> is_helpful])

\* UserManager.add_unknown_question: the log after the call
add_unknown_question(uq, user_id, question) ==
  Append(uq, [question |-> question, user_id |-> user_id])

\* one message the bot sends or edits
Message(to, kind, question, answer, message_id, options) ==
  [to |-> to, kind |-> kind, question |-> question, answer |-> answer,
   message_id |-> message_id, options |-> options]
Notice(to, kind) == Message(to, kind, << >>, << >>, 0, << >>)

\* the admins in the order _forward_to_admin writes to them
RECURSIVE SetToSeq(_)
SetToSeq(S) ==
  IF S = {} THEN << >>
  ELSE LET x == CHOOSE y \in S : \A z \in S : y <= z
       IN << x >> \o SetToSeq(S \ {x})

\* _forward_to_admin: the messages that reach the admins when the requests
\* to the admins of `failing` fail (a failure is logged and skipped)
forward_to_admin(user_id, question, failing) ==
  LET admins == SetToSeq(AdminIds \ failing)
  IN [j \in 1..Len(admins) |->
        Message(admins[j], "forward", question, << >>, user_id, << >>)]

\* the variables of the searcher, which no handler of the bot assigns
searcher ==
  << structures, call, retrieved, matched_text, word_overlap, has_relevant,
     extracted, lookups, search_outcomes >>

\* TelegramBot() on BotKnowledgeBase; no update was handled yet
InitBot ==
  /\ knowledge_base = BotKnowledgeBase
  /\ all_questions = prepare_search_index(knowledge_base).all_questions
  /\ question_to_answer = prepare_search_index(knowledge_base).question_to_answer
  /\ hardcoded_keywords_map =
       prepare_search_index(knowledge_base).hardcoded_keywords_map
  /\ index = prepare_search_index(knowledge_base).index
  /\ significant_words = build_keyword_index(knowledge_base)
  /\ pc = "idle"
  /\ query = << >>
  /\ top_k = 1
  /\ threshold = 55
  /\ clean_query = << >>
  /\ stages = << >>
  /\ results = << >>
  /\ retrieved = << >>
  /\ matched_text = << >>
  /\ word_overlap = Frac(0, 1)
  /\ lookups = << >>
  /\ search_outcomes = BotSearchTable
  /\ TelegramBotInit
  /\ extracted = << >>
  /\ has_relevant = FALSE
  /\ raised = FALSE
  /\ embedder_failed = FALSE

\* handle_message, lines 141-147: the admin cancels the reply
CancelReply(user_id) ==
  /\ admin_pending_replies' = DictDel(admin_pending_replies, user_id)
  /\ sent' = << Notice(user_id, "reply_cancelled") >>
  /\ UNCHANGED << pending_confirmations, pending_feedback, unknown_questions,
                  feedback >>

\* mutant: the pending reply is deleted only after the answer was sent
ProcessAdminReply_DeleteAfterSend(admin_id, text) ==
  LET admin_data == DictGet(admin_pending_replies, admin_id)
  IN /\ pending_feedback' =
          save_pending_feedback(pending_feedback, admin_data.user_id,
                                admin_data.question, text)
     /\ \E delivered \in BOOLEAN :
          /\ sent' =
               IF delivered
               THEN << Message(admin_data.user_id, "admin_answer",
                               admin_data.question, text, 0, << >>),
                       Notice(admin_id, "reply_sent") >>
               ELSE << Notice(admin_id, "reply_error") >>
          /\ admin_pending_replies' =
               IF delivered THEN DictDel(admin_pending_replies, admin_id)
               ELSE admin_pending_replies
     /\ UNCHANGED << pending_confirmations, unknown_questions, feedback >>

\* _process_admin_reply for an admin in reply mode: the pending reply is
\* deleted, the feedback context saved, and the answer sent to the user; the
\* failure of that request is reported to the admin
ProcessAdminReply(admin_id, text) ==
  LET admin_data == DictGet(admin_pending_replies, admin_id)
  IN /\ admin_pending_replies' = DictDel(admin_pending_replies, admin_id)
     /\ pending_feedback' =
          save_pending_feedback(pending_feedback, admin_data.user_id,
                                admin_data.question, text)
     /\ \E delivered \in BOOLEAN :
          sent' =
            IF delivered
            THEN << Message(admin_data.user_id, "admin_answer",
                            admin_data.question, text, 0, << >>),
                    Notice(admin_id, "reply_sent") >>
            ELSE << Notice(admin_id, "reply_error") >>
     /\ UNCHANGED << pending_confirmations, unknown_questions, feedback >>

\* _forward_to_admin and the reply that follows it
ForwardToAdmin(user_id, question, kind) ==
  /\ unknown_questions' = add_unknown_question(unknown_questions, user_id, question)
  /\ \E failing \in SUBSET AdminIds :
       sent' = forward_to_admin(user_id, question, failing)
                 \o << Notice(user_id, kind) >>

\* score > 0.80
IsHigh(score) == FracLess(Hundredths(HighConfidence), score)
\* score > 0.60
IsMedium(score) == FracLess(Hundredths(MediumConfidence), score)

\* mutant: the confirmation is added to those the user already has
StoreConfirmation_Adds(user_id, message_id, data) ==
  DictSet(pending_confirmations, user_id,
          DictSet(DictGetOr(pending_confirmations, user_id, << >>),
                  message_id, data))

\* self.pending_confirmations[user_id] = {message_id: data}
StoreConfirmation(user_id, message_id, data) ==
  DictSet(pending_confirmations, user_id,
          << [key |-> message_id, item |-> data] >>)

\* handle_message, lines 287-337: what the bot does with the list search
\* returned for the message message_id
AnswerQuestion(user_id, text, message_id, found) ==
  IF found = << >>
  THEN /\ ForwardToAdmin(user_id, text, "not_found")
       /\ UNCHANGED << pending_confirmations, admin_pending_replies,
                       pending_feedback, feedback >>
  ELSE IF IsHigh(found[1].score)
  THEN /\ pending_feedback' =
            save_pending_feedback(pending_feedback, user_id, text,
                                  found[1].answer)
       /\ sent' = << Message(user_id, "answer", text, found[1].answer, 0,
                             << >>) >>
       /\ UNCHANGED << pending_confirmations, admin_pending_replies,
                       unknown_questions, feedback >>
  ELSE IF IsMedium(found[1].score)
  THEN /\ pending_confirmations' =
            StoreConfirmation(user_id, message_id,
                              [question |-> text, results |-> found])
       /\ sent' = << Message(user_id, "confirmation", text, found[1].answer,
                             message_id, << >>) >>
       /\ UNCHANGED << admin_pending_replies, pending_feedback,
                       unknown_questions, feedback >>
  ELSE /\ ForwardToAdmin(user_id, text, "not_sure")
       /\ UNCHANGED << pending_confirmations, admin_pending_replies,
                       pending_feedback, feedback >>

\* handle_message: a text message of user_id; its message id is the number
\* of the update
HandleMessage(user_id, text) ==
  /\ updates' = updates + 1
  /\ IF is_admin(user_id) /\ user_id \in DictKeys(admin_pending_replies)
     THEN /\ update' = Update("message", user_id, text, "reply", updates', 0,
                              0, FALSE)
          /\ IF text = t_cancel THEN CancelReply(user_id)
             ELSE ProcessAdminReply(user_id, text)
     ELSE IF text \in MenuCaptions
     THEN /\ update' = Update("message", user_id, text, "menu", updates', 0,
                              0, FALSE)
          /\ sent' = << Notice(user_id, "menu") >>
          /\ UNCHANGED << pending_confirmations, admin_pending_replies,
                          pending_feedback, unknown_questions, feedback >>
     ELSE IF ~is_likely_real_question(text)
     THEN /\ update' = Update("message", user_id, text, "unclear", updates',
                              0, 0, FALSE)
          /\ sent' = << Notice(user_id, "not_understood") >>
          /\ UNCHANGED << pending_confirmations, admin_pending_replies,
                          pending_feedback, unknown_questions, feedback >>
     ELSE \E outcome \in BotSearch(text) :
            /\ update' = Update("message", user_id, text, "search", updates',
                                0, 0, outcome.raised)
            /\ IF outcome.raised
               THEN /\ sent' = << >>
                    /\ UNCHANGED << pending_confirmations,
                                    admin_pending_replies, pending_feedback,
                                    unknown_questions, feedback >>
               ELSE AnswerQuestion(user_id, text, updates', outcome.results)
  /\ UNCHANGED searcher

\* the confirmation message_id of user_id is pending
IsPending(user_id, message_id) ==
  /\ user_id \in DictKeys(pending_confirmations)
  /\ message_id \in DictKeys(DictGet(pending_confirmations, user_id))

\* results[1:4], the alternatives the action "other" lists
Alternatives(found) == SubSeq(found, 2, Min(4, Len(found)))

\* handle_confirmation: user_id presses a button of a confirmation prompt;
\* the callback data are action:message_id or select:message_id:variant
HandleConfirmation(user_id, action, message_id, variant) ==
  /\ updates' = updates + 1
  /\ update' = Update("confirmation", user_id, << >>, action, message_id,
                      variant, 0, FALSE)
  /\ IF ~IsPending(user_id, message_id)
     THEN /\ sent' = << Notice(user_id, "expired") >>
          /\ UNCHANGED << pending_confirmations, pending_feedback,
                          unknown_questions >>
     ELSE LET user_data ==
                DictGet(DictGet(pending_confirmations, user_id), message_id)
              question == user_data.question
              found == user_data.results
          IN /\ CASE action = "confirm" ->
                       /\ pending_feedback' =
                            save_pending_feedback(pending_feedback, user_id,
                                                  question, found[1].answer)
                       /\ sent' = << Message(user_id, "answer", question,
                                             found[1].answer, 0, << >>) >>
                       /\ UNCHANGED unknown_questions
                  [] action = "other" /\ Len(found) > 1 ->
                       /\ sent' = << Message(user_id, "alternatives", question,
                                             << >>, message_id,
                                             Alternatives(found)) >>
                       /\ UNCHANGED << pending_feedback, unknown_questions >>
                  [] action = "other" /\ ~(Len(found) > 1) ->
                       /\ ForwardToAdmin(user_id, question, "no_alternatives")
                       /\ UNCHANGED pending_feedback
                  [] action = "noanswer" ->
                       /\ ForwardToAdmin(user_id, question, "forwarded")
                       /\ UNCHANGED pending_feedback
                  [] action = "select" /\ 1 <= variant /\ variant < Len(found) ->
                       /\ pending_feedback' =
                            save_pending_feedback(pending_feedback, user_id,
                                                  question,
                                                  found[variant + 1].answer)
                       /\ sent' = << Message(user_id, "answer", question,
                                             found[variant + 1].answer, 0,
                                             << >>) >>
                       /\ UNCHANGED unknown_questions
                  [] OTHER ->
                       /\ sent' = << >>
                       /\ UNCHANGED << pending_feedback, unknown_questions >>
             /\ pending_confirmations' =
                  DictSet(pending_confirmations, user_id,
                          DictDel(DictGet(pending_confirmations, user_id),
                                  message_id))
  /\ UNCHANGED << admin_pending_replies, feedback, searcher >>

\* handle_feedback: user_id presses fb_yes or fb_no under an answer to
\* question; the button carries the hash of the context saved with the answer
HandleFeedback(user_id, is_helpful, question) ==
  LET target == user_id
      question_hash == generate_feedback_hash(target, question)
  IN /\ updates' = updates + 1
     /\ update' = Update("feedback", user_id, question,
                         IF is_helpful THEN "fb_yes" ELSE "fb_no", 0, 0,
                         target, FALSE)
     /\ IF question_hash \notin DictKeys(pending_feedback)
        THEN /\ sent' = << Notice(user_id, "thanks") >>
             /\ UNCHANGED << pending_feedback, feedback >>
        ELSE LET feedback_data == DictGet(pending_feedback, question_hash)
             IN /\ feedback' =
                     add_feedback(feedback, feedback_data.user_id,
                                  feedback_data.question, feedback_data.answer,
                                  is_helpful)
                /\ sent' = << Notice(user_id, "thanks_recorded") >>
                /\ pending_feedback' = DictDel(pending_feedback, question_hash)
     /\ UNCHANGED << pending_confirmations, admin_pending_replies,
                     unknown_questions, searcher >>

\* the question handle_admin_reply reads back from the forwarded message:
\* the rest of the line after "Вопрос:", stripped
RECURSIVE FirstLine(_)
FirstLine(text) ==
  IF text = << >> \/ Head(text) = "\n" THEN << >>
  ELSE << Head(text) >> \o FirstLine(Tail(text))
ForwardedQuestion(question) == Strip(FirstLine(question))

\* mutant: the button works for every user
MayReply_Anyone(user_id) == TRUE

\* the test of handle_admin_reply, line 465
MayReply(user_id) == is_admin(user_id)

\* handle_admin_reply: admin_id presses the button reply:target under the
\* forwarded question
HandleAdminReply(admin_id, target, question) ==
  /\ updates' = updates + 1
  /\ update' = Update("admin_reply", admin_id, question, "reply", 0, 0, target,
                      FALSE)
  /\ IF ~MayReply(admin_id)
     THEN /\ sent' = << Notice(admin_id, "no_access") >>
          /\ UNCHANGED admin_pending_replies
     ELSE /\ admin_pending_replies' =
               DictSet(admin_pending_replies, admin_id,
                       [user_id |-> target,
                        question |-> ForwardedQuestion(question)])
          /\ \E shown \in BOOLEAN :
               sent' = IF shown THEN << Notice(admin_id, "reply_mode") >>
                       ELSE << >>
  /\ UNCHANGED << pending_confirmations, pending_feedback, unknown_questions,
                  feedback, searcher >>

\* the actions a confirmation button carries, and the variants offered
ConfirmationActions == {"confirm", "other", "noanswer", "select"}
Variants(action) == IF action = "select" THEN {1, 2} ELSE {0}

\* the questions a student asks: the first one every question, the second
\* one the question that gets at most one result
Asked(user_id) == IF user_id = 1 THEN QuestionTexts ELSE {t_zachet_vuz}

\* two students ask and confirm
NextBot ==
  \/ \E user_id \in Students :
       \E text \in Asked(user_id) :
         updates < MaxUpdates /\ HandleMessage(user_id, text)
  \/ \E user_id \in Students, action \in ConfirmationActions,
        message_id \in 1..updates :
       \E variant \in Variants(action) :
         /\ updates < MaxUpdates
         /\ HandleConfirmation(user_id, action, message_id, variant)

SpecBot == InitBot /\ [][NextBot]_vars

\* a student asks and rates the answers, an admin answers
NextStaff ==
  \/ \E user_id \in Staff, text \in StaffTexts :
       updates < MaxTurns /\ HandleMessage(user_id, text)
  \/ \E user_id \in Staff, j \in 1..Len(unknown_questions) :
       /\ updates < MaxTurns
       /\ HandleAdminReply(user_id, unknown_questions[j].user_id,
                           unknown_questions[j].question)
  \/ \E user_id \in Staff, is_helpful \in BOOLEAN,
        question \in RatedQuestions :
       updates < MaxTurns /\ HandleFeedback(user_id, is_helpful, question)

SpecStaff == InitBot /\ [][NextStaff]_vars


(***************************************************************************)
(* Properties of search.                                                   *)
(***************************************************************************)
StageOrder == << "keywords", "gate", "neural", "fuzzy" >>
IsPrefix(s, t) == Len(s) <= Len(t) /\ SubSeq(t, 1, Len(s)) = s
LastStage == IF stages = << >> THEN "none" ELSE stages[Len(stages)]
Ran(stage) == stage \in SeqToSet(stages)

\* the call has returned a list (it did not raise)
Returned == pc = "done" /\ ~raised

KeywordTypes ==
  {"keyword_exact", "keyword_fuzzy", "keyword_contains", "query_in_keyword"}

\* the match types a stage can emit
StageTypes(stage) ==
  CASE stage = "keywords" -> KeywordTypes
    [] stage = "neural" -> {"neural"}
    [] stage = "fuzzy" -> {"fuzzy"}
    [] OTHER -> {}

\* what the keyword matcher returns for the call's query
KeywordMatch == check_keywords(knowledge_base, hardcoded_keywords_map, clean_text(query))

\* what the relevance gate reports for the call's query
GateRelevant == has_relevant_words(hardcoded_keywords_map, significant_words, query)

\* the tiers of the keyword matcher, 1 the highest, under which key k matches q
TiersOf(k, q) ==
  {tier \in 1..4 :
     \/ tier = 1 /\ q = k
     \/ tier = 2 /\ 200 * LCS(q, k) > 92 * (Len(q) + Len(k))
     \/ tier = 3 /\ Len(k) > 5 /\ Contains(q, k)
     \/ tier = 4 /\ Len(q) > 3 /\ Contains(k, q)}

TableTiers(q) == UNION {TiersOf(k, q) : k \in DictKeys(hardcoded_keywords_map)}

TierType(tier) ==
  CASE tier = 1 -> "keyword_exact"
    [] tier = 2 -> "keyword_fuzzy"
    [] tier = 3 -> "keyword_contains"
    [] OTHER -> "query_in_keyword"

\* C1: with the index built, a query whose normalized form is a key of the
\* keyword table gets exactly one result, of score 1.0 and type keyword_exact.
C1_ExactKeywordAlwaysExact ==
  (Returned /\ ~index.is_none
     /\ clean_text(query) \in DictKeys(hardcoded_keywords_map))
  => /\ Len(results) = 1
     /\ FracEq(results[1].score, Frac(1, 1))
     /\ results[1].match_type = "keyword_exact"

\* C2: the keyword matcher returns a match of the highest tier under which
\* any keyword of the table matches the query, and None when none matches.
C2_HighestTierWins ==
  (LastStage = "keywords")
  => IF TableTiers(clean_query) = {}
     THEN results = << >>
     ELSE /\ Len(results) = 1
          /\ results[1].match_type =
               TierType(CHOOSE tier \in TableTiers(clean_query) :
                          \A u \in TableTiers(clean_query) : tier <= u)

\* C3: once the keyword matcher has found a match, the call is over with that
\* match as its whole output; the gate, the vector search (embedder) and the
\* fuzzy matcher have not run.
C3_KeywordMatchShortCircuits ==
  (Ran("keywords") /\ KeywordMatch # << >>)
  => /\ pc = "done"
     /\ stages = << "keywords" >>
     /\ results = KeywordMatch
     /\ Len(results) = 1
     /\ ~raised /\ ~embedder_failed

C3_Witness ==
  /\ pc = "done"
  /\ stages = << "keywords" >>
  /\ Len(results) = 1
  /\ results[1].match_type = "keyword_contains"
  /\ top_k = 2

\* C4: the stages run in the order keywords, gate, vector, fuzzy; the vector
\* search starts only after the keyword matcher returned no match, the fuzzy
\* matcher only after the vector search returned an empty list; the results of
\* one response all come from the stage that ran last.
C4_StagesInOrder ==
  /\ IsPrefix(stages, StageOrder)
  /\ pc = "neural" => /\ LastStage = "gate"
                      /\ results = << >>
                      /\ KeywordMatch = << >>
  /\ pc = "fuzzy" => /\ LastStage = "neural"
                     /\ results = << >>
                     /\ ~raised
  /\ Ran("fuzzy") => pc = "done"
  /\ \A j \in 1..Len(results) : results[j].match_type \in StageTypes(LastStage)

C4_Witness ==
  /\ pc = "done"
  /\ stages = StageOrder
  /\ results # << >>
  /\ \A j \in 1..Len(results) : results[j].match_type = "fuzzy"

\* C5: when the embedder fails in the vector stage, search does not raise and
\* returns what the fuzzy matcher returns for the query.
C5_EmbedderFailureFallsBackToFuzzy ==
  (pc = "done" /\ embedder_failed)
  => /\ ~raised
     /\ results = fuzzy_search(knowledge_base, Phrases, clean_query, top_k)

\* C6: searching for an item's own normalized question returns a non-empty
\* list whose first result is that item, of type keyword_exact or neural and
\* of score at least 0.55.  Stated for the questions that normalize to a
\* non-empty phrase and match no keyword of the table, questions made only of
\* stop-words or of short words included.
C6_OwnQuestionFound ==
  \A i \in 1..Len(knowledge_base) :
    (Returned /\ query # << >>
       /\ query = clean_text(knowledge_base[i].question)
       /\ KeywordMatch = << >>)
    => /\ results # << >>
       /\ results[1].question = knowledge_base[i].question
       /\ results[1].answer = knowledge_base[i].answer
       /\ results[1].match_type \in {"keyword_exact", "neural"}
       /\ FracLeq(Hundredths(55), results[1].score)

\* C7, as stated: after the keyword matcher found no match the call ends at
\* the gate only when the gate reports no relevance and the query has no
\* significant word; otherwise the vector search is run.
C7_GateStopsOnlyWithoutSignificantWords ==
  (pc = "done" /\ LastStage = "gate")
  => (~GateRelevant /\ get_significant_words(query) = {})

\* C7, amended: after the keyword matcher found no match the call ends at the
\* gate, with the empty list, exactly when the gate reports no relevance,
\* whether or not the query has significant words; the vector search is run
\* exactly when the gate reports relevance.
C7_GateStopsWithoutRelevance ==
  Ran("gate")
  => IF GateRelevant
     THEN pc = "neural" \/ Ran("neural")
     ELSE /\ pc = "done"
          /\ LastStage = "gate"
          /\ results = << >>
          /\ ~raised

C7_Witness ==
  /\ pc = "done"
  /\ LastStage = "gate"
  /\ get_significant_words(query) # {}
  /\ ~GateRelevant

\* a word shares a token or a 5-character prefix with the vocabulary
SharesVocabulary(w) ==
  \/ w \in significant_words
  \/ \E v \in significant_words :
       Len(w) > 4 /\ Len(v) > 4 /\ Prefix(w, 5) = Prefix(v, 5)

\* C8: a query that matches no keyword and none of whose significant words
\* shares a token or a 5-character prefix with the vocabulary gets the empty
\* list, and neither the embedder nor the fuzzy matcher is invoked.
C8_NoVocabularyNoSearch ==
  (/\ KeywordMatch = << >>
   /\ \A w \in get_significant_words(query) : ~SharesVocabulary(w))
  => /\ results = << >>
     /\ pc \notin {"neural", "fuzzy"}
     /\ ~Ran("neural") /\ ~Ran("fuzzy")
     /\ ~raised /\ ~embedder_failed

C8_Witness ==
  /\ pc = "done"
  /\ stages = << "keywords", "gate" >>
  /\ get_significant_words(query) # {}
  /\ \A w \in get_significant_words(query) : ~SharesVocabulary(w)
  /\ significant_words # {}
  /\ results = << >>

\* C9: for a query that is None or empty, or whose normalized form has fewer
\* than 2 characters, search returns the empty list without raising and runs
\* no stage.
C9_InvalidQueryReturnsEmpty ==
  (pc # "idle" /\ (Falsy(query) \/ Len(clean_text(query)) < 2))
  => /\ pc = "done"
     /\ stages = << >>
     /\ results = << >>
     /\ ~raised

C9_Witness ==
  /\ pc = "done"
  /\ ~index.is_none
  /\ ~Falsy(query)
  /\ Len(clean_text(query)) = 1
  /\ hardcoded_keywords_map # << >>
  /\ results = << >>

\* no question and no variation of the corpus normalizes to a phrase
NoPhrase ==
  \A i \in 1..Len(knowledge_base) :
    /\ clean_text(knowledge_base[i].question) = << >>
    /\ \A k \in 1..Len(knowledge_base[i].variations) :
         clean_text(knowledge_base[i].variations[k]) = << >>

\* C10: when no question or variation normalizes to a non-empty phrase there
\* is no index, and every search returns the empty list without raising and
\* without running a stage, also for a query that is a registered keyword.
C10_EmptyCorpusAlwaysEmpty ==
  NoPhrase
  => /\ index.is_none
     /\ pc \in {"idle", "done"}
     /\ stages = << >>
     /\ results = << >>
     /\ ~raised

C10_Witness ==
  /\ NoPhrase
  /\ knowledge_base # << >>
  /\ pc = "done"
  /\ clean_text(query) \in DictKeys(hardcoded_keywords_map)
  /\ results = << >>

(***************************************************************************)
(* Properties of the result list.                                          *)
(***************************************************************************)
\* the overlap of the call's query with a phrase is at least 0.3
OverlapPasses(phrase) ==
  FracLeq(Frac(3, 10), calculate_word_overlap(clean_query, phrase))

\* C11: in every response of search, no two results have answers with the
\* same first 100 characters.
C11_NoDuplicateAnswerPrefix ==
  \A i, j \in 1..Len(results) :
    i # j => Prefix(results[i].answer, 100) # Prefix(results[j].answer, 100)

\* two items whose answers differ after the same first 100 characters were
\* both candidates of the vector search, and one of them was emitted
C11_Witness ==
  /\ pc = "done"
  /\ LastStage = "neural"
  /\ top_k = 2
  /\ threshold = 0
  /\ Len(knowledge_base) = 2
  /\ knowledge_base[1].answer # knowledge_base[2].answer
  /\ Prefix(knowledge_base[1].answer, 100) = Prefix(knowledge_base[2].answer, 100)
  /\ \A p \in 1..Len(all_questions) : OverlapPasses(all_questions[p])
  /\ Len(results) = 1

\* C12: every result of a response, whichever stage produced it, has a score
\* from 0 to 1, for the thresholds from 0 to 1 and the similarities from -1
\* to 1.
C12_ScoresInUnitInterval ==
  \A j \in 1..Len(results) :
    /\ FracLeq(Frac(0, 1), results[j].score)
    /\ FracLeq(results[j].score, Frac(1, 1))

\* the vector search emitted a result at the upper end: similarity 1.0 and
\* overlap 1.0 under the threshold 1.0
C12_Witness ==
  /\ pc = "done"
  /\ LastStage = "neural"
  /\ threshold = 100
  /\ Len(results) = 1
  /\ results[1].raw_score = 100
  /\ FracEq(results[1].word_overlap, Frac(1, 1))
  /\ FracEq(results[1].score, Frac(1, 1))

\* C13: the list a response returns is sorted by score in non-increasing
\* order, whichever stage (keyword, vector or fuzzy) produced it.
C13_SortedByScore ==
  \A j \in 1..(Len(results) - 1) :
    FracLeq(results[j + 1].score, results[j].score)

\* the vector search returned two results of the same similarity, ordered by
\* their fused scores: the one of the larger overlap first
C13_Witness ==
  /\ pc = "done"
  /\ LastStage = "neural"
  /\ Len(results) = 2
  /\ results[1].raw_score = results[2].raw_score
  /\ FracLess(results[2].word_overlap, results[1].word_overlap)
  /\ FracLess(results[2].score, results[1].score)

\* the 100-character answer prefixes of the corpus
AnswerPrefixes ==
  {Prefix(knowledge_base[i].answer, 100) : i \in 1..Len(knowledge_base)}

\* C14: for every top_k >= 1 a response has at most top_k results, and never
\* more results than the corpus has items of distinct 100-character answer
\* prefixes.
C14_AtMostTopK ==
  /\ Len(results) <= top_k
  /\ Len(results) <= Cardinality(AnswerPrefixes)

\* the vector search stopped at top_k = 1 although a phrase of a second item,
\* of another answer, overlaps the query enough
C14_Witness ==
  /\ pc = "done"
  /\ LastStage = "neural"
  /\ top_k = 1
  /\ threshold = 0
  /\ Len(results) = 1
  /\ Cardinality(AnswerPrefixes) = 2
  /\ \E p \in 1..Len(all_questions) :
       /\ OverlapPasses(all_questions[p])
       /\ knowledge_base[DictGet(question_to_answer, all_questions[p])].answer
            # results[1].answer

(***************************************************************************)
(* Properties of _neural_search, on the answer of the index.               *)
(***************************************************************************)
\* the phrase, the item and the scores of the candidate at position i
CandidateText(i) ==
  PyIndex(all_questions,
          IF retrieved[i].idx < 0 THEN retrieved[i].idx ELSE retrieved[i].idx - 1)
CandidateItem(i) == knowledge_base[DictGet(question_to_answer, CandidateText(i))]
CandidateOverlap(i) == calculate_word_overlap(clean_query, CandidateText(i))
CandidateFused(i) ==
  Frac(6 * retrieved[i].score * CandidateOverlap(i).d + 400 * CandidateOverlap(i).n,
       1000 * CandidateOverlap(i).d)

\* the overlap is at least 0.3 and the fused score at least the threshold;
\* with raw_filter, the similarity is at least the threshold as well
CandidatePasses(i, raw_filter) ==
  /\ raw_filter => retrieved[i].score >= threshold
  /\ FracLeq(Frac(3, 10), CandidateOverlap(i))
  /\ FracLeq(Hundredths(threshold), CandidateFused(i))

\* the positions among 1..i whose candidates are emitted: those that pass,
\* with no earlier emitted candidate of the same answer prefix and fewer than
\* top_k candidates emitted before them
RECURSIVE EmittedAmong(_, _)
EmittedAmong(i, raw_filter) ==
  IF i = 0 THEN {}
  ELSE LET before == EmittedAmong(i - 1, raw_filter)
       IN IF /\ Cardinality(before) < top_k
             /\ CandidatePasses(i, raw_filter)
             /\ \A j \in before :
                  Prefix(CandidateItem(j).answer, 100)
                    # Prefix(CandidateItem(i).answer, 100)
          THEN before \cup {i}
          ELSE before

\* the result emitted for the candidate at position i
CandidateResult(i) ==
  [question |-> CandidateItem(i).question, answer |-> CandidateItem(i).answer,
   score |-> CandidateFused(i), raw_score |-> retrieved[i].score,
   match_type |-> "neural", matched_variation |-> CandidateText(i),
   word_overlap |-> CandidateOverlap(i)]

\* the results are those of the positions of `emitted`, one for each
ResultsAre(emitted) ==
  /\ Len(results) = Cardinality(emitted)
  /\ SeqToSet(results) = {CandidateResult(i) : i \in emitted}

\* C15, as stated: a retrieved candidate is emitted if and only if its overlap
\* is at least 0.3, its fused score at least the threshold, no earlier emitted
\* result has its answer prefix and fewer than top_k results were emitted
\* before it; a similarity below the threshold alone discards no candidate.
C15_EmittedIffFusedPasses ==
  (pc = "done" /\ LastStage = "neural")
  => ResultsAre(EmittedAmong(Len(retrieved), FALSE))

\* C15, amended: a retrieved candidate is emitted if and only if its
\* similarity is at least the threshold, its overlap at least 0.3, its fused
\* score at least the threshold, no earlier emitted result has its answer
\* prefix and fewer than top_k results were emitted before it.
C15_EmittedIffRawAndFusedPass ==
  (pc = "done" /\ LastStage = "neural")
  => ResultsAre(EmittedAmong(Len(retrieved), TRUE))

\* a candidate of similarity below the threshold, of overlap at least 0.3 and
\* of fused score at least the threshold, was retrieved first and discarded
C15_Witness ==
  /\ pc = "done"
  /\ LastStage = "neural"
  /\ retrieved[1].idx >= 1
  /\ retrieved[1].score < threshold
  /\ CandidatePasses(1, FALSE)
  /\ \A j \in 1..Len(results) : results[j].matched_variation # CandidateText(1)

\* the position in the answer of the index of the phrase of a result
RetrievedAt(text) ==
  CHOOSE i \in 1..Len(retrieved) :
    retrieved[i].idx >= 1 /\ all_questions[retrieved[i].idx] = text

\* C29: in the list of the vector search two results of equal fused score
\* are in the order in which the index returned them: the final sort by
\* descending score is stable.
C29_EqualScoresInRetrievalOrder ==
  (pc = "done" /\ LastStage = "neural")
  => \A i, j \in 1..Len(results) :
       (i < j /\ FracEq(results[i].score, results[j].score))
       => RetrievedAt(results[i].matched_variation)
            < RetrievedAt(results[j].matched_variation)

\* two results of equal fused score were returned; the index had returned
\* the phrase of the first one first, and the phrase of the second one third
C29_Witness ==
  /\ pc = "done"
  /\ LastStage = "neural"
  /\ Len(results) = 2
  /\ FracEq(results[1].score, results[2].score)
  /\ RetrievedAt(results[1].matched_variation) = 1
  /\ RetrievedAt(results[2].matched_variation) = 3

\* the positions of the padding in the answer of the index
Padding == {i \in 1..Len(retrieved) : retrieved[i].idx = PadLabel}

\* C30: when the index holds fewer than 3 * top_k phrases, the entries that
\* pad its answer (label -1, lowest score) are never used to read the phrase
\* list and never emitted, whatever the threshold in [0, 1].
C30_PaddingNeverUsed ==
  (pc = "done" /\ LastStage = "neural")
  => /\ Len(all_questions) < 3 * top_k
          => Cardinality(Padding) = 3 * top_k - Len(all_questions)
     /\ \A j \in 1..Len(lookups) : lookups[j] \in 1..Len(all_questions)
     /\ \A j \in 1..Len(results) :
          /\ results[j].raw_score # PadScore
          /\ \E i \in 1..Len(retrieved) :
               /\ i \notin Padding
               /\ retrieved[i].score = results[j].raw_score
               /\ all_questions[retrieved[i].idx] = results[j].matched_variation

\* the index of one phrase answered with five entries of padding, at the
\* threshold 0.0; the phrase was read and emitted, and nothing else was read
C30_Witness ==
  /\ pc = "done"
  /\ LastStage = "neural"
  /\ threshold = 0
  /\ Len(all_questions) = 1
  /\ Cardinality(Padding) = 5
  /\ lookups = << 1 >>
  /\ Len(results) = 1

(***************************************************************************)
(* Properties of _fuzzy_search, on the answer of process.extract.          *)
(***************************************************************************)
\* the item and the overlap of the match at position i
MatchItem(i) == knowledge_base[DictGet(question_to_answer, extracted[i].text)]
MatchOverlap(i) == calculate_word_overlap(clean_query, extracted[i].text)

\* the positions among 1..i whose matches are emitted: a ratio of at least
\* 70, an overlap of at least 0.3, no earlier emitted match of the same
\* answer prefix and fewer than top_k matches emitted before
RECURSIVE EmittedMatches(_)
EmittedMatches(i) ==
  IF i = 0 THEN {}
  ELSE LET before == EmittedMatches(i - 1)
       IN IF /\ Cardinality(before) < top_k
             /\ FracLeq(Frac(70, 1), extracted[i].score)
             /\ FracLeq(Frac(3, 10), MatchOverlap(i))
             /\ \A j \in before :
                  Prefix(MatchItem(j).answer, 100) # Prefix(MatchItem(i).answer, 100)
          THEN before \cup {i}
          ELSE before

\* the result emitted for the match at position i
MatchResult(i) ==
  [question |-> MatchItem(i).question, answer |-> MatchItem(i).answer,
   score |-> Frac(extracted[i].score.n, 100 * extracted[i].score.d),
   match_type |-> "fuzzy", matched_variation |-> extracted[i].text,
   word_overlap |-> MatchOverlap(i)]

\* C28: the fuzzy search considers only the 2 * top_k phrases of highest
\* token-set ratio, in descending order of the ratio, and emits a candidate
\* if and only if its ratio is at least 70, its overlap at least 0.3, no
\* earlier emitted result has its 100-character answer prefix and fewer than
\* top_k results were emitted before it; an emitted result has the score
\* ratio / 100 and the match type fuzzy, and the results are in that order.
C28_FuzzyEmitsFromBestMatches ==
  (pc = "done" /\ LastStage = "fuzzy")
  => /\ Len(extracted) = Min(2 * top_k, Len(all_questions))
     /\ \A i \in 1..Len(extracted) :
          /\ extracted[i].text \in SeqToSet(all_questions)
          /\ FracEq(extracted[i].score,
                    token_set_ratio(clean_query, extracted[i].text))
          /\ \A j \in 1..Len(extracted) :
               i < j => /\ FracLeq(extracted[j].score, extracted[i].score)
                        /\ extracted[i].text # extracted[j].text
          /\ \A p \in 1..Len(all_questions) :
               all_questions[p] \notin {extracted[j].text : j \in 1..Len(extracted)}
               => FracLeq(token_set_ratio(clean_query, all_questions[p]),
                          extracted[i].score)
     /\ LET emitted == EmittedMatches(Len(extracted))
        IN /\ Len(results) = Cardinality(emitted)
           /\ \A i \in emitted :
                results[Cardinality({j \in emitted : j <= i})] = MatchResult(i)

\* a match of ratio below 70 and overlap of at least 0.3 was discarded, and
\* a phrase of the index was left out of the 2 * top_k matches
C28_Witness ==
  /\ pc = "done"
  /\ LastStage = "fuzzy"
  /\ Len(extracted) < Len(all_questions)
  /\ \E i \in 1..Len(extracted) :
       /\ FracLess(extracted[i].score, Frac(70, 1))
       /\ FracLeq(Frac(3, 10), MatchOverlap(i))
  /\ Len(results) = 1

(***************************************************************************)
(* Properties of clean_text and of _calculate_word_overlap.                *)
(***************************************************************************)
\* C16: clean_text is idempotent, clean_text(clean_text(x)) = clean_text(x)
\* for every text x, and the empty text and None give the empty text.
C16_CleanTextIdempotent ==
  pc = "cleaned"
  => /\ clean_text(clean_query) = clean_query
     /\ Falsy(query) => clean_query = << >>

\* a text with an upper-case letter and a punctuation mark next to a space
\* was normalized to two words
C16_Witness ==
  /\ pc = "cleaned"
  /\ query = << "a", "?", " ", "D" >>
  /\ clean_query = << "a", " ", "d" >>

\* a lower-case letter or a digit
IsLowerOrDigit(c) == c \in Letters \cup Digits

\* C17: the output of clean_text has only lower-case letters, digits and
\* single spaces between tokens, no space at either end: every other character
\* of the input (punctuation, underscore, symbols) was replaced by a space.
C17_OnlyLettersDigitsSpaces ==
  pc = "cleaned"
  => /\ \A i \in 1..Len(clean_query) :
          IsLowerOrDigit(clean_query[i]) \/ clean_query[i] = " "
     /\ \A i \in 1..Len(clean_query) :
          clean_query[i] = " "
            => /\ i > 1 /\ i < Len(clean_query)
               /\ clean_query[i + 1] # " "

\* C18: the overlap of a text with itself is 1.0 for every text that has a
\* significant word.
C18_OverlapWithItselfIsOne ==
  (pc = "overlap" /\ matched_text = query /\ get_significant_words(query) # {})
  => FracEq(word_overlap, Frac(1, 1))

\* a text of a stop-word and two significant words was compared with itself
C18_Witness ==
  /\ pc = "overlap"
  /\ matched_text = query
  /\ Cardinality(get_significant_words(query)) = 2
  /\ Len(Split(clean_text(query))) = 3
  /\ FracEq(word_overlap, Frac(1, 1))

\* the significant words of the query that are significant words of the
\* compared text
VerbatimWords ==
  get_significant_words(query) \cap get_significant_words(matched_text)

\* the other significant words of the query, longer than 4 characters, whose
\* first 5 characters are the first 5 characters of a significant word of the
\* compared text that is longer than 4 characters
StemWords ==
  {w \in get_significant_words(query) \ VerbatimWords :
     /\ Len(w) > 4
     /\ \E mw \in get_significant_words(matched_text) :
          Len(mw) > 4 /\ Prefix(mw, 5) = Prefix(w, 5)}

\* C22: the overlap of a query and a text is 0 when the query has no
\* significant word; otherwise it is (the number of the query's significant
\* words found verbatim in the text's + 0.7 times the number of the others
\* matched by their first 5 characters) divided by the number of the query's
\* significant words; it is always in [0, 1].
C22_OverlapIsWeightedShare ==
  pc = "overlap"
  => /\ get_significant_words(query) = {} => FracEq(word_overlap, Frac(0, 1))
     /\ get_significant_words(query) # {}
          => /\ word_overlap.d = 10 * Cardinality(get_significant_words(query))
             /\ word_overlap.n = 10 * Cardinality(VerbatimWords)
                                   + 7 * Cardinality(StemWords)
     /\ FracLeq(Frac(0, 1), word_overlap)
     /\ FracLeq(word_overlap, Frac(1, 1))

\* a query of two significant words was compared with a text that holds one
\* of them verbatim and the other one by its first 5 characters only
C22_Witness ==
  /\ pc = "overlap"
  /\ Cardinality(get_significant_words(query)) = 2
  /\ Cardinality(VerbatimWords) = 1
  /\ Cardinality(StemWords) = 1
  /\ FracEq(word_overlap, Frac(17, 20))

(***************************************************************************)
(* Properties of the structures during the searches.                       *)
(***************************************************************************)
\* the five structures are those built from the knowledge base
StructuresOf(kb) ==
  /\ all_questions = prepare_search_index(kb).all_questions
  /\ question_to_answer = prepare_search_index(kb).question_to_answer
  /\ hardcoded_keywords_map = prepare_search_index(kb).hardcoded_keywords_map
  /\ index = prepare_search_index(kb).index
  /\ significant_words = build_keyword_index(kb)

\* a call of search is in progress
Searching == pc \in {"keywords", "gate", "neural", "fuzzy", "done"}

CarriesItem(r, i) ==
  /\ r.question = knowledge_base[i].question
  /\ r.answer = knowledge_base[i].answer

\* C21: every result of a response carries the question and the answer of one
\* and the same item of the corpus; the matched phrase of a neural or fuzzy
\* result is an indexed phrase registered for that item; a response of a call
\* in which no stage accepted a candidate is the empty sequence.
C21_ResultsComeFromItems ==
  /\ \A j \in 1..Len(results) :
       /\ \E i \in 1..Len(knowledge_base) : CarriesItem(results[j], i)
       /\ results[j].match_type \in {"neural", "fuzzy"}
            => /\ results[j].matched_variation \in SeqToSet(all_questions)
               /\ CarriesItem(results[j],
                              DictGet(question_to_answer,
                                      results[j].matched_variation))
  /\ (pc = "done" /\ LastStage \in {"none", "gate"}) => results = << >>

\* the vector search answered with an item found through one of its
\* variations, in a corpus of two items and three phrases
C21_Witness ==
  /\ pc = "done"
  /\ LastStage = "neural"
  /\ Len(knowledge_base) = 2
  /\ Len(all_questions) = 3
  /\ Len(results) = 1
  /\ results[1].matched_variation # clean_text(results[1].question)
  /\ CarriesItem(results[1], 1)

(***************************************************************************)
(* Properties of _has_relevant_words and of the structures __init__ built. *)
(***************************************************************************)
\* a word longer than 4 characters and a vocabulary word longer than 4
\* characters have the same first 5 characters
SameStem(word, sig_word) ==
  Len(word) > 4 /\ Len(sig_word) > 4 /\ Prefix(word, 5) = Prefix(sig_word, 5)

\* C23: _has_relevant_words(query) is true exactly when the query has no
\* significant word and the normalized query is a key of the keyword table,
\* or it has one that is in the vocabulary or has the first 5 characters of
\* a vocabulary word, both longer than 4 characters.
C23_RelevantIffKeywordOrVocabulary ==
  pc = "relevance"
  => (has_relevant
      <=> \/ /\ get_significant_words(query) = {}
             /\ \E j \in 1..Len(hardcoded_keywords_map) :
                  hardcoded_keywords_map[j].key = clean_text(query)
          \/ /\ get_significant_words(query) # {}
             /\ \E word \in get_significant_words(query) :
                  \/ word \in significant_words
                  \/ \E sig_word \in significant_words : SameStem(word, sig_word))

\* a query that is a stop-word and a keyword was found relevant
C23_Witness ==
  /\ pc = "relevance"
  /\ has_relevant
  /\ query # << >>
  /\ get_significant_words(query) = {}

\* C24: every member of the vocabulary significant_words is a single
\* normalized token (no space), longer than 2 characters, and not a
\* stop-word, the members that come from the keywords included.
C24_VocabularyOfSignificantTokens ==
  \A w \in significant_words :
    /\ " " \notin SeqToSet(w)
    /\ Len(w) > 2
    /\ w \notin STOP_WORDS

\* __init__ has run _prepare_search_index
IndexBuilt == pc # "prepare_search_index"

\* the normalized phrases item i produces: its question and its variations
ItemPhrases(i) ==
  {clean_text(knowledge_base[i].question)}
  \cup {clean_text(knowledge_base[i].variations[k]) :
          k \in 1..Len(knowledge_base[i].variations)}

\* the items that produce the phrase
Producers(phrase) == {i \in 1..Len(knowledge_base) : phrase \in ItemPhrases(i)}

\* the owners the phrase has in question_to_answer
Owners(phrase) ==
  {question_to_answer[j].item :
     j \in {j \in 1..Len(question_to_answer) :
              question_to_answer[j].key = phrase}}

\* C25: after the index is built the phrase list has no duplicate and no
\* empty phrase, every phrase has exactly one owner in question_to_answer,
\* and the owner is the first item, in corpus order, that produces it.
C25_PhrasesOwnedByFirstItem ==
  IndexBuilt
  => /\ \A i, j \in 1..Len(all_questions) :
          i # j => all_questions[i] # all_questions[j]
     /\ \A i \in 1..Len(all_questions) :
          /\ all_questions[i] # << >>
          /\ Cardinality({j \in 1..Len(question_to_answer) :
                            question_to_answer[j].key = all_questions[i]}) = 1
          /\ Producers(all_questions[i]) # {}
          /\ \A o \in Owners(all_questions[i]) :
               /\ o \in Producers(all_questions[i])
               /\ \A other \in Producers(all_questions[i]) : o <= other

\* the index is built; a phrase is produced by two items, and another one
\* three times by one item
C25_Witness ==
  /\ pc = "idle"
  /\ \E i \in 1..Len(all_questions) :
       Cardinality(Producers(all_questions[i])) = 2
  /\ \E i \in 1..Len(knowledge_base) :
       /\ Len(knowledge_base[i].variations) = 2
       /\ Cardinality(ItemPhrases(i)) = 1

\* the normalized non-empty keywords item i declares
ItemKeywords(i) ==
  {clean_text(knowledge_base[i].keywords[k]) :
     k \in 1..Len(knowledge_base[i].keywords)} \ { << >> }

\* the items that declare the keyword
Declarers(keyword) ==
  {i \in 1..Len(knowledge_base) : keyword \in ItemKeywords(i)}

\* C26: after the index is built every normalized non-empty keyword of the
\* corpus has exactly one owner in hardcoded_keywords_map, and the owner is
\* the last item, in corpus order, that declares it.
C26_KeywordOwnedByLastItem ==
  IndexBuilt
  => \A i \in 1..Len(knowledge_base) : \A keyword \in ItemKeywords(i) :
       /\ Cardinality({j \in 1..Len(hardcoded_keywords_map) :
                         hardcoded_keywords_map[j].key = keyword}) = 1
       /\ \A j \in 1..Len(hardcoded_keywords_map) :
            hardcoded_keywords_map[j].key = keyword
            => /\ hardcoded_keywords_map[j].item \in Declarers(keyword)
               /\ \A other \in Declarers(keyword) :
                    other <= hardcoded_keywords_map[j].item

\* the index is built; a keyword is declared by two items, and the first of
\* them is not the last item of the corpus
C26_Witness ==
  /\ pc = "idle"
  /\ \E j \in 1..Len(hardcoded_keywords_map) :
       /\ Cardinality(Declarers(hardcoded_keywords_map[j].key)) = 2
       /\ hardcoded_keywords_map[j].item = Len(knowledge_base)
       /\ 1 \in Declarers(hardcoded_keywords_map[j].key)
       /\ Len(knowledge_base) = 3

\* the normalized non-empty keywords in the order of the corpus: item by
\* item, and in the order of the item's list
RECURSIVE DeclaredFrom(_, _)
DeclaredFrom(i, k) ==
  IF i > Len(knowledge_base) THEN << >>
  ELSE IF k > Len(knowledge_base[i].keywords) THEN DeclaredFrom(i + 1, 1)
  ELSE IF clean_text(knowledge_base[i].keywords[k]) = << >>
  THEN DeclaredFrom(i, k + 1)
  ELSE << clean_text(knowledge_base[i].keywords[k]) >> \o DeclaredFrom(i, k + 1)

\* the declarations without the repetitions: the order of first registration
FirstRegistrations ==
  LET d == DeclaredFrom(1, 1)
  IN SelectSeq([j \in 1..Len(d) |->
                  IF \E h \in 1..(j - 1) : d[h] = d[j] THEN << >> ELSE d[j]],
               LAMBDA kw : kw # << >>)

\* the last item that declares the keyword
LastDeclarer(keyword) ==
  CHOOSE i \in Declarers(keyword) : \A other \in Declarers(keyword) : other <= i

\* the keyword matches the query under one of the four tiers
KeywordMatches(keyword, q) ==
  \/ q = keyword
  \/ FracLess(Frac(92, 1), fuzz_ratio(q, keyword))
  \/ Len(keyword) > 5 /\ Contains(q, keyword)
  \/ Len(q) > 3 /\ Contains(keyword, q)

\* C27: _check_keywords visits the keywords in the order of their first
\* registration in the corpus and returns the match of the first one that
\* matches under any tier, with the item that declared it last; its result
\* is a function of the corpus and the query, and a keyword declared again
\* by a later item keeps its place in the order.
C27_FirstRegisteredKeywordAnswers ==
  pc = "checked"
  => LET order == FirstRegistrations
         hits == {j \in 1..Len(order) : KeywordMatches(order[j], clean_query)}
     IN /\ [j \in 1..Len(order) |-> order[j]]
             = [j \in 1..Len(hardcoded_keywords_map) |->
                  hardcoded_keywords_map[j].key]
        /\ hits = {} <=> results = << >>
        /\ hits # {}
             => LET first == CHOOSE j \in hits : \A h \in hits : j <= h
                IN /\ Len(results) = 1
                   /\ CarriesItem(results[1], LastDeclarer(order[first]))
                   /\ results[1] =
                        KeywordEntryMatch(knowledge_base,
                                          [key |-> order[first],
                                           item |-> LastDeclarer(order[first])],
                                          clean_query)[1]

\* the first keyword of the corpus was declared again by the last item; the
\* query is a later keyword, and the answer is that of the last item, by the
\* first keyword
C27_Witness ==
  /\ pc = "checked"
  /\ Len(knowledge_base) = 3
  /\ Len(hardcoded_keywords_map) >= 2
  /\ Declarers(hardcoded_keywords_map[1].key) = {1, 3}
  /\ clean_query = hardcoded_keywords_map[2].key
  /\ Len(results) = 1
  /\ CarriesItem(results[1], 3)
  /\ results[1].match_type = "query_in_keyword"

(***************************************************************************)
(* Properties of the Telegram front-end.                                   *)
(***************************************************************************)
\* the update handled last was the press of `action` on a confirmation
Pressed(action) == update.handler = "confirmation" /\ update.action = action

\* the bot has just listed the alternatives of a confirmation
AlternativesShown ==
  /\ Pressed("other")
  /\ Len(sent) = 1
  /\ sent[1].kind = "alternatives"

\* the context pending_feedback holds for user_id and question carries answer
HasContext(pf, user_id, question, answer) ==
  /\ generate_feedback_hash(user_id, question) \in DictKeys(pf)
  /\ DictGet(pf, generate_feedback_hash(user_id, question)) =
       [user_id |-> user_id, question |-> question, answer |-> answer]

\* C31: when the bot has listed the alternatives of a confirmation and the
\* user presses one of the offered buttons "Variant i", the bot shows the
\* answer of results[i] and registers its pending-feedback context.
C31_VariantAfterOtherAnswers ==
  [][(/\ AlternativesShown
      /\ update'.handler = "confirmation"
      /\ update'.action = "select"
      /\ update'.user = update.user
      /\ update'.message_id = update.message_id
      /\ update'.variant \in 1..Len(sent[1].options))
     => /\ sent' = << Message(update.user, "answer", sent[1].question,
                              sent[1].options[update'.variant].answer, 0,
                              << >>) >>
        /\ HasContext(pending_feedback', update.user, sent[1].question,
                      sent[1].options[update'.variant].answer)]_vars

\* the bot has logged question as unknown and forwarded it: a request went
\* to every admin, and the user got the notice `kind`
Forwarded(user_id, question, kind) ==
  /\ unknown_questions' = add_unknown_question(unknown_questions, user_id, question)
  /\ \E failing \in SUBSET AdminIds :
       sent' = forward_to_admin(user_id, question, failing)
                 \o << Notice(user_id, kind) >>

\* the next update is the press of "no answer" on a confirmation prompt that
\* is pending
NoAnswerOnPrompt ==
  /\ update'.handler = "confirmation"
  /\ update'.action = "noanswer"
  /\ IsPending(update'.user, update'.message_id)

\* the next update is the press of "none of them fits" on the list of
\* alternatives the bot has just shown
NoAnswerOnAlternatives ==
  /\ AlternativesShown
  /\ update'.handler = "confirmation"
  /\ update'.action = "noanswer"
  /\ update'.user = update.user
  /\ update'.message_id = update.message_id

\* the question of the pending confirmation message_id of user_id
PendingQuestion(user_id, message_id) ==
  DictGet(DictGet(pending_confirmations, user_id), message_id).question

\* C32: a press of "no answer", on the confirmation prompt or on the list of
\* alternatives, appends the question to the unknown-question log and
\* forwards it to every admin.
C32_NoAnswerAlwaysForwards ==
  [][/\ NoAnswerOnPrompt
        => Forwarded(update'.user,
                     PendingQuestion(update'.user, update'.message_id),
                     "forwarded")
     /\ NoAnswerOnAlternatives
        => Forwarded(update.user, sent[1].question, "forwarded")]_vars

\* the next update is a text message that reaches the search stage (line 285)
SearchStage == update'.handler = "message" /\ update'.action = "search"

\* the three outcomes of handle_message for the list `found`, by its top
\* result: logged and forwarded; confirmation prompt; answered at once
LoggedAndForwarded(found) ==
  /\ \/ Forwarded(update'.user, update'.text, "not_found")
     \/ Forwarded(update'.user, update'.text, "not_sure")
  /\ UNCHANGED << pending_confirmations, pending_feedback >>
PromptSent(found) ==
  /\ sent' = << Message(update'.user, "confirmation", update'.text,
                        found[1].answer, update'.message_id, << >>) >>
  /\ update'.user \in DictKeys(pending_confirmations')
  /\ DictGet(pending_confirmations', update'.user) =
       << [key |-> update'.message_id,
           item |-> [question |-> update'.text, results |-> found]] >>
  /\ UNCHANGED << pending_feedback, unknown_questions >>
AnsweredAtOnce(found) ==
  /\ sent' = << Message(update'.user, "answer", update'.text,
                        found[1].answer, 0, << >>) >>
  /\ HasContext(pending_feedback', update'.user, update'.text, found[1].answer)
  /\ UNCHANGED << pending_confirmations, unknown_questions >>

\* the outcome the top result of `found` selects
OutcomeByTopResult(found) ==
  IF found = << >> \/ FracLeq(found[1].score, Hundredths(MediumConfidence))
  THEN LoggedAndForwarded(found)
  ELSE IF FracLeq(found[1].score, Hundredths(HighConfidence))
  THEN PromptSent(found)
  ELSE AnsweredAtOnce(found)

\* C33: every text message that reaches the search stage has the outcome its
\* top result selects: no result or a top score <= 0.60 is logged as unknown
\* and forwarded, 0.60 < top score <= 0.80 gets the confirmation prompt and a
\* pending confirmation, a top score > 0.80 is answered at once with a
\* pending-feedback context.
C33_OneOutcomeByTopScore ==
  [][SearchStage
       => \E outcome \in BotSearch(update'.text) :
            /\ ~outcome.raised
            /\ OutcomeByTopResult(outcome.results)]_vars

\* no user has more than one pending confirmation
AtMostOnePending ==
  \A j \in 1..Len(pending_confirmations) :
    Len(pending_confirmations[j].item) <= 1

\* the next update is a message that is answered with a confirmation prompt
PromptNext ==
  /\ SearchStage
  /\ Len(sent') = 1
  /\ sent'[1].kind = "confirmation"

\* the next update is a confirmation callback of a user for whom the
\* confirmation it names is not pending: it was replaced, was handled, or is
\* another user's
StaleCallbackNext ==
  /\ update'.handler = "confirmation"
  /\ ~IsPending(update'.user, update'.message_id)

\* C34: each user has at most one pending confirmation; a new confirmation
\* prompt leaves the user with the new confirmation alone; and a confirmation
\* callback for a confirmation that is not pending for its user is answered
\* "waiting time expired" and changes neither the pending confirmations, the
\* pending feedback nor the unknown-question log.
C34_OnePendingConfirmation ==
  [][/\ AtMostOnePending'
     /\ PromptNext
        => DictKeys(DictGet(pending_confirmations', update'.user)) =
             {update'.message_id}
     /\ StaleCallbackNext
        => /\ sent' = << Notice(update'.user, "expired") >>
           /\ UNCHANGED << pending_confirmations, pending_feedback,
                           unknown_questions >>]_vars

\* a user who has a pending confirmation pressed a button of an earlier one
C34_Witness ==
  /\ update.handler = "confirmation"
  /\ sent = << Notice(update.user, "expired") >>
  /\ \E m \in 1..updates :
       m > update.message_id /\ IsPending(update.user, m)

\* the next update is a feedback callback; its hash, and whether a context
\* is saved under it
FeedbackNext == update'.handler = "feedback"
NextHash == generate_feedback_hash(update'.target, update'.text)
ContextKnown == NextHash \in DictKeys(pending_feedback)

\* the record the callback stores when the log keeps `answer` of the context
FeedbackRecord(answer) ==
  [user_id |-> DictGet(pending_feedback, NextHash).user_id,
   question |-> DictGet(pending_feedback, NextHash).question,
   answer |-> answer,
   is_helpful |-> (update'.action = "fb_yes")]

\* no two records of the feedback log stem from one hash
OneRecordPerHash ==
  \A i, j \in 1..Len(feedback) :
    (/\ feedback[i].user_id = feedback[j].user_id
     /\ feedback[i].question = feedback[j].question) => i = j

BotState ==
  << pending_confirmations, admin_pending_replies, pending_feedback,
     unknown_questions, feedback >>

\* the kinds of the messages the bot sends when it handles a text as the
\* reply of an admin
ReplyKinds == {"admin_answer", "reply_sent", "reply_error", "reply_cancelled"}

\* the next update is a text message that the bot handles as an admin's reply
HandledAsReplyNext ==
  /\ update'.handler = "message"
  /\ \E j \in 1..Len(sent') : sent'[j].kind \in ReplyKinds

\* C36: only configured admins have a pending reply; the press of a "reply:"
\* button by a user who is not an admin changes no state of the bot; and a
\* text message is handled as an admin's reply only when its sender is an
\* admin who has a pending reply.
C36_ReplyModeOnlyForAdmins ==
  [][/\ DictKeys(admin_pending_replies') \subseteq AdminIds
     /\ (update'.handler = "admin_reply" /\ ~is_admin(update'.user))
        => UNCHANGED BotState
     /\ HandledAsReplyNext
        => /\ is_admin(update'.user)
           /\ update'.user \in DictKeys(admin_pending_replies)]_vars

\* a user who is not an admin pressed the button under a forwarded question
C36_Witness ==
  /\ update.handler = "admin_reply"
  /\ ~is_admin(update.user)
  /\ unknown_questions # << >>
  /\ sent = << Notice(update.user, "no_access") >>

\* the next update is a text message of an admin who has a pending reply
ReplyTextNext ==
  /\ update'.handler = "message"
  /\ update'.user \in DictKeys(admin_pending_replies)

\* the messages of sent that carry an admin's answer to a user
AdminAnswers(msgs) == {j \in 1..Len(msgs) : msgs[j].kind = "admin_answer"}

\* C37: the next text message of an admin who has a pending reply removes
\* the pending reply, whether or not the answer could be sent; the cancel
\* caption sends no answer and saves no feedback context; any other text, a
\* menu caption included, is sent at most once, to the user of the pending
\* reply; and a text of an admin who has no pending reply is sent to no user
\* as an answer.
C37_NextTextEndsReplyMode ==
  [][/\ ReplyTextNext
        => /\ update'.user \notin DictKeys(admin_pending_replies')
           /\ IF update'.text = t_cancel
              THEN /\ AdminAnswers(sent') = {}
                   /\ pending_feedback' = pending_feedback
              ELSE /\ Cardinality(AdminAnswers(sent')) <= 1
                   /\ \A j \in AdminAnswers(sent') :
                        /\ sent'[j].to =
                             DictGet(admin_pending_replies, update'.user).user_id
                        /\ sent'[j].answer = update'.text
     /\ (update'.handler = "message" /\ ~ReplyTextNext)
        => AdminAnswers(sent') = {}]_vars

\* an admin answered with a menu caption, the answer could not be sent, and
\* the admin has no pending reply any more
C37_Witness ==
  /\ update.handler = "message"
  /\ update.text = t_about
  /\ sent = << Notice(update.user, "reply_error") >>
  /\ update.user \notin DictKeys(admin_pending_replies)

====
